---- MODULE Spec2Model ----
(***************************************************************************)
(* Model of the evaluation driver src/evaluation/run_all_metrics.py:       *)
(* the best/worst Summarizer, the CSV Standardizer with its column and     *)
(* path resolvers, and the pipeline driver main().                         *)
(***************************************************************************)
EXTENDS Integers, Sequences, FiniteSets, TLC

VARIABLES
    sum_table,      \* Summarizer: the table pd.read_csv(summary_csv) yields
    sum_pc,         \* Summarizer: "ready" | "returned" | "raised"
    output_csv,     \* Summarizer: the file at output_csv (exists, rows)
    output_writes,  \* Summarizer: number of times output_csv was written
    std_src,        \* Standardizer: the source prompt-img-path.csv
    std_pc,         \* Standardizer: "ready" | "returned" | "raised"
    std_ret,        \* Standardizer: the step count returned, -1 before/without
    canonical_csv,  \* Standardizer: the file at output_csv
    std_prev,       \* Standardizer: outcome and file of the previous call
    args,           \* Driver: the parsed command line
    fs,             \* Driver: the files the run reads and writes
    pc,             \* Driver: position of main()
    timestamp,      \* Driver: the timestamp of line 321
    model_dirs,     \* Driver: the selected model directories, sorted
    model_infos,    \* Driver: the models standardised so far
    pos,            \* Driver: position of the current loop in its list
    proc,           \* Driver: the subprocess being waited for, if any
    launched,       \* Driver: every subprocess launched, in order
    summarized,     \* Driver: the models summarize_best_worst was called for
    failure,        \* Driver: the first subprocess that exited non-zero
    error,          \* Driver: the uncaught exception that ended the run
    fc_columns,     \* Column Resolver: the headers passed to find_column
    fc_candidates,  \* Column Resolver: the candidates passed to find_column
    fc_pc,          \* Column Resolver: "ready" | "returned"
    fc_ret,         \* Column Resolver: the value find_column returned
    rp_base_dir,    \* Path Resolver: the base_dir passed to resolve_path
    rp_value,       \* Path Resolver: the value passed to resolve_path
    rp_pc,          \* Path Resolver: "ready" | "returned"
    rp_ret,         \* Path Resolver: the string resolve_path returned
    cmd_argv,       \* Cultural command: the flags on the driver's command line
    cmd_pc,         \* Cultural command: "ready" | "built"
    cmd,            \* Cultural command: the argument list given to run_subprocess
    ana_args,       \* Analysis runner: the parsed command line
    data_files,     \* Analysis runner: the models with both metrics CSVs
    ana_pc,         \* Analysis runner: the position in main()
    single_types,   \* Analysis runner: the types the single-model loop goes over
    type_pos,       \* Analysis runner: index into single_types
    model_pos,      \* Analysis runner: index into args.models
    attempted,      \* Analysis runner: the sub-analyses started, in order
    success_count,  \* Analysis runner: line 134
    total_count     \* Analysis runner: line 135

sumVars == <<sum_table, sum_pc, output_csv, output_writes>>
stdVars == <<std_src, std_pc, std_ret, canonical_csv, std_prev>>
drvVars ==
    <<args, fs, pc, timestamp, model_dirs, model_infos, pos, proc, launched,
      summarized, failure, error>>

colVars == <<fc_columns, fc_candidates, fc_pc, fc_ret>>
pathVars == <<rp_base_dir, rp_value, rp_pc, rp_ret>>
cmdVars == <<cmd_argv, cmd_pc, cmd>>
anaVars ==
    <<ana_args, data_files, ana_pc, single_types, type_pos, model_pos, attempted,
      success_count, total_count>>

vars == <<sumVars, stdVars, drvVars, colVars, pathVars, cmdVars, anaVars>>

(***************************************************************************)
(* Bounds of the model.                                                    *)
(***************************************************************************)
MaxRows == 3
MaxF1 == 2
NumGroups == 2

(***************************************************************************)
(* Generic helpers.                                                        *)
(***************************************************************************)
RECURSIVE SetToSortedSeqDesc(_)
SetToSortedSeqDesc(S) ==
    IF S = {} THEN <<>>
    ELSE LET m == CHOOSE x \in S : \A y \in S : x >= y
         IN <<m>> \o SetToSortedSeqDesc(S \ {m})

RECURSIVE SetToSortedSeq(_)
SetToSortedSeq(S) ==
    IF S = {} THEN <<>>
    ELSE LET m == CHOOSE x \in S : \A y \in S : x <= y
         IN <<m>> \o SetToSortedSeq(S \ {m})

SeqsUpTo(S, n) == UNION {[1..k -> S] : k \in 0..n}

(***************************************************************************)
(* Strings.  A Python str is a sequence of one-character strings, so that  *)
(* lower(), strip(), f-strings and path parsing are computed as the code   *)
(* computes them.                                                          *)
(***************************************************************************)
UpperAlpha == <<"A", "B", "C", "D", "E", "F", "G", "H", "I", "J", "K", "L", "M",
                "N", "O", "P", "Q", "R", "S", "T", "U", "V", "W", "X", "Y", "Z">>
LowerAlpha == <<"a", "b", "c", "d", "e", "f", "g", "h", "i", "j", "k", "l", "m",
                "n", "o", "p", "q", "r", "s", "t", "u", "v", "w", "x", "y", "z">>
Digits == <<"0", "1", "2", "3", "4", "5", "6", "7", "8", "9">>

\* str(idx) for a one-digit idx
DigitStr(idx) == <<Digits[idx + 1]>>

LowerMap ==
    [c \in {UpperAlpha[i] : i \in 1..26} |-> LowerAlpha[CHOOSE i \in 1..26 : UpperAlpha[i] = c]]

LowerChar(c) == IF c \in DOMAIN LowerMap THEN LowerMap[c] ELSE c

\* str.lower()
lower(s) == [i \in 1..Len(s) |-> LowerChar(s[i])]

IsSpace(c) == c \in {" ", "\t"}

RECURSIVE lstrip(_)
lstrip(s) == IF s # <<>> /\ IsSpace(Head(s)) THEN lstrip(Tail(s)) ELSE s

RECURSIVE rstrip(_)
rstrip(s) ==
    IF s # <<>> /\ IsSpace(s[Len(s)]) THEN rstrip(SubSeq(s, 1, Len(s) - 1)) ELSE s

\* str.strip()
strip(s) == rstrip(lstrip(s))

s_prompt == <<"p", "r", "o", "m", "p", "t">>
s_t2i_prompt == <<"t", "2", "i", " ">> \o s_prompt
s_text == <<"t", "e", "x", "t">>
s_text_prompt == s_text \o <<"_">> \o s_prompt
s_editing_prompt == <<"e", "d", "i", "t", "i", "n", "g", "_">> \o s_prompt
s_i2i_prompt == <<"i", "2", "i", " ">> \o s_prompt
s_instruction == <<"i", "n", "s", "t", "r", "u", "c", "t", "i", "o", "n">>
s_step == <<"s", "t", "e", "p">>
s_path == <<"_", "p", "a", "t", "h">>
s_base == <<"b", "a", "s", "e">>
s_edit == <<"e", "d", "i", "t">>
s_nan == <<"n", "a", "n">>

(***************************************************************************)
(* The candidate names of lines 57-78 and the header names of the model.   *)
(***************************************************************************)
\* range(1, 10) of line 69: the exclusive upper end
StepRangeEnd == 10

PromptCandidates == <<s_prompt, s_t2i_prompt, s_text, s_text_prompt>>
EditingCandidates == <<s_editing_prompt, s_i2i_prompt, s_instruction>>
Step0Candidates == <<s_step \o <<"0">>, s_step \o <<"0">> \o s_path, s_base, s_base \o s_path>>
StepCandidates(idx) ==
    <<s_step \o DigitStr(idx), s_step \o DigitStr(idx) \o s_path,
      s_edit \o <<"_">> \o DigitStr(idx), s_edit \o <<"_">> \o DigitStr(idx) \o s_path,
      s_edit \o DigitStr(idx), s_edit \o DigitStr(idx) \o s_path>>

h_Prompt == <<"P", "r", "o", "m", "p", "t">>
h_prompt_pad == <<" ">> \o s_prompt \o <<" ">>
h_instruction == s_instruction
h_Base == <<"B", "a", "s", "e">>
h_Edit_1 == <<"E", "d", "i", "t", "_", "1">>
h_step3 == s_step \o <<"3">>
h_img == <<"i", "m", "g">>
HeaderNames ==
    {h_Prompt, h_prompt_pad, h_instruction, h_Base, h_Edit_1, h_step3, h_img}

\* further headers and candidates find_column is applied to on its own:
\* a header matching a later prompt candidate, headers that contain a
\* candidate or are contained in one, and a candidate that is not normalised
h_Text == <<"T", "e", "x", "t">>
h_Prompts == h_Prompt \o <<"s">>
h_Tex == <<"T", "e", "x">>
c_PROMPT_pad == <<" ", "P", "R", "O", "M", "P", "T", " ">>
ColumnNames == HeaderNames \cup {h_Text, h_Prompts, h_Tex}

Range(f) == {f[i] : i \in DOMAIN f}

KnownStrings ==
    ColumnNames \cup {c_PROMPT_pad} \cup Range(PromptCandidates) \cup Range(EditingCandidates)
    \cup Range(Step0Candidates)
    \cup UNION {Range(StepCandidates(idx)) : idx \in 1..(StepRangeEnd - 1)}

(***************************************************************************)
(* Column Resolver: find_column.                                           *)
(***************************************************************************)
NotFound == [found |-> FALSE, col |-> <<>>]
Found(col) == [found |-> TRUE, col |-> col]

\* bool(x) of an Optional[str]: None and "" are falsy
Truthy(r) == r.found /\ r.col # <<>>

\* the key of a header or candidate: x.lower().strip()
NormKey(x) == strip(lower(x))

\* the keys of the strings of the model, computed once
KeyTable == [x \in KnownStrings |-> NormKey(x)]

Key(x) == IF x \in KnownStrings THEN KeyTable[x] ELSE NormKey(x)

\* which of several headers with one key the dict comprehension keeps: a
\* later entry overwrites an earlier one
KeptFirst(S) == CHOOSE i \in S : \A j \in S : i <= j
Kept(S) == CHOOSE i \in S : \A j \in S : i >= j

\* lookup = {col.lower().strip(): col for col in columns}, as the list of
\* the headers' keys; lookup.get(key) is Lookup
RECURSIVE LookupKeys(_)
LookupKeys(columns) ==
    IF columns = <<>> THEN <<>>
    ELSE <<Key(Head(columns))>> \o LookupKeys(Tail(columns))

\* s occurs in t
Contains(t, s) == \E k \in 0..(Len(t) - Len(s)) : SubSeq(t, k + 1, k + Len(s)) = s

LookupContains(columns, keys, key) ==
    LET S == {i \in 1..Len(columns) : Contains(keys[i], key)}
    IN IF S = {} THEN NotFound ELSE Found(columns[Kept(S)])
Lookup(columns, keys, key) ==
    LET S == {i \in 1..Len(columns) : keys[i] = key}
    IN IF S = {} THEN NotFound ELSE Found(columns[Kept(S)])

RECURSIVE FirstCandidate(_, _, _)
\* the loop of lines 31-35
FirstCandidate(columns, keys, candidates) ==
    IF candidates = <<>> THEN NotFound
    ELSE LET hit == Lookup(columns, keys, Key(Head(candidates)))
         IN IF hit.found THEN hit ELSE FirstCandidate(columns, keys, Tail(candidates))

find_column(columns, candidates) ==
    FirstCandidate(columns, LookupKeys(columns), candidates)

(***************************************************************************)
(* Path Resolver: resolve_path.  A path is a root ("", "/" or "//") and    *)
(* its components, as pathlib parses it; the file system has no symlinks.  *)
(***************************************************************************)
RECURSIVE Split(_, _)
\* s.split("/") with the component being read in acc
Split(s, acc) ==
    IF s = <<>> THEN <<acc>>
    ELSE IF Head(s) = "/" THEN <<acc>> \o Split(Tail(s), <<>>)
    ELSE Split(Tail(s), Append(acc, Head(s)))

RootOf(s) ==
    IF s = <<>> \/ Head(s) # "/" THEN <<>>
    ELSE IF Len(s) >= 2 /\ s[2] = "/" /\ (Len(s) = 2 \/ s[3] # "/") THEN <<"/", "/">>
    ELSE <<"/">>

\* Path(value): empty and "." components are dropped, ".." is kept
Path(s) ==
    [root |-> RootOf(s),
     parts |-> SelectSeq(Split(s, <<>>), LAMBDA c : c # <<>> /\ c # <<".">>)]

is_absolute(path) == path.root # <<>>

\* base / value
JoinPath(base, path) ==
    IF is_absolute(path) THEN path
    ELSE [root |-> base.root, parts |-> base.parts \o path.parts]

RECURSIVE Collapse(_, _)
\* ".." removes the component before it; at the root it is dropped
Collapse(parts, done) ==
    IF parts = <<>> THEN done
    ELSE IF Head(parts) = <<".", ".">>
         THEN Collapse(Tail(parts),
                       IF done = <<>> THEN <<>> ELSE SubSeq(done, 1, Len(done) - 1))
         ELSE Collapse(Tail(parts), Append(done, Head(parts)))

\* the working directory of the process
Cwd == [root |-> <<"/">>, parts |-> << <<"w">> >>]

\* Path.resolve()
resolve(path) ==
    LET abs == JoinPath(Cwd, path)
    IN [root |-> abs.root, parts |-> Collapse(abs.parts, <<>>)]

RECURSIVE JoinParts(_)
JoinParts(parts) ==
    IF parts = <<>> THEN <<>>
    ELSE IF Len(parts) = 1 THEN Head(parts)
    ELSE Head(parts) \o <<"/">> \o JoinParts(Tail(parts))

\* str(path)
PathStr(path) ==
    IF path.root = <<>> /\ path.parts = <<>> THEN <<".">>
    ELSE path.root \o JoinParts(path.parts)

resolve_path(base_dir, value) ==
    LET v == strip(value)
        path == Path(v)
    IN IF v = <<>> THEN <<>>
       ELSE IF ~is_absolute(path) THEN PathStr(resolve(JoinPath(base_dir, path)))
       ELSE PathStr(path)

(***************************************************************************)
(* CSV Standardizer: standardise_model_csv.                                *)
(*                                                                         *)
(* The source prompt-img-path.csv is: whether it exists, its header line   *)
(* and its rows, a row holding one cell per header.  A cell is null (NaN   *)
(* after pd.read_csv) or a non-empty text.                                 *)
(***************************************************************************)
NullCell == [null |-> TRUE, s |-> <<>>]
Cell(s) == [null |-> FALSE, s |-> s]

notna(cell) == ~cell.null

\* str(value) of a cell
str(cell) == IF cell.null THEN s_nan ELSE cell.s

ColIndex(columns, col) == CHOOSE i \in 1..Len(columns) : columns[i] = col

\* row[col]
At(columns, row, col) == row[ColIndex(columns, col)]

\* the column found for step idx (lines 65 and 70-78)
StepCol(columns, idx) ==
    IF idx = 0 THEN find_column(columns, Step0Candidates)
    ELSE find_column(columns, StepCandidates(idx))

RECURSIVE StepColsFrom(_, _)
StepColsFrom(columns, idx) ==
    IF idx >= StepRangeEnd THEN <<>>
    ELSE <<StepCol(columns, idx)>> \o StepColsFrom(columns, idx + 1)

\* step_columns (lines 64-80): the column found for each idx, if any; the
\* entry of idx is at position idx + 1
step_columns(columns) == StepColsFrom(columns, 0)

\* step_columns.get(idx)
StepGet(cols, idx) == cols[idx + 1]

\* the keys of the dict step_columns
StepKeys(cols) == {idx \in 0..(Len(cols) - 1) : Truthy(StepGet(cols, idx))}

\* max(step_columns)
MaxStepCount(S) == Cardinality(S) - 1
MaxStep(S) == CHOOSE m \in S : \A x \in S : x <= m

\* f"step{idx}_path"
StepField(idx) == s_step \o DigitStr(idx) \o s_path

\* line 86
fieldnames(max_step) ==
    <<s_prompt, s_editing_prompt>> \o [k \in 1..(max_step + 1) |-> StepField(k - 1)]

\* pd.read_csv raises on a file without a header line
NoHeader(src) == src.columns = <<>>

\* df.empty
df_empty_never(src) == FALSE
df_empty(src) == src.rows = <<>> \/ src.columns = <<>>

\* the rows df.iterrows() yields, in order
iterrows_tail(rows) == IF rows = <<>> THEN rows ELSE Tail(rows)
iterrows(rows) == rows

\* the record written for one row (lines 93-102), in fieldnames order
Record(model_dir, columns, row, prompt_col, editing_col, cols, max_step) ==
    << strip(str(At(columns, row, prompt_col.col))),
       IF Truthy(editing_col) /\ notna(At(columns, row, editing_col.col))
       THEN strip(str(At(columns, row, editing_col.col)))
       ELSE <<>> >>
    \o [k \in 1..(max_step + 1) |->
          IF Truthy(StepGet(cols, k - 1)) /\ notna(At(columns, row, StepGet(cols, k - 1).col))
          THEN resolve_path(model_dir, str(At(columns, row, StepGet(cols, k - 1).col)))
          ELSE <<>>]

\* a raise of lines 51-83: output_csv has not been opened yet (line 89)
RaisedAfterOpen(e) ==
    [outcome |-> "raised", error |-> e, max_step |-> -1, written |-> TRUE,
     fieldnames |-> <<>>, rows |-> <<>>]
Raised(e) ==
    [outcome |-> "raised", error |-> e, max_step |-> -1, written |-> FALSE,
     fieldnames |-> <<>>, rows |-> <<>>]

\* standardise_model_csv as a function of the model directory and its source
\* CSV: how the call ends, the value returned, and what is written to
\* output_csv
standardise_model_csv(model_dir, src) ==
    IF ~src.exists THEN Raised("FileNotFoundError")
    ELSE IF NoHeader(src) THEN Raised("EmptyDataError")
    ELSE IF df_empty(src) THEN Raised("ValueError: no rows")
    ELSE LET prompt_col == find_column(src.columns, PromptCandidates)
             editing_col == find_column(src.columns, EditingCandidates)
             cols == step_columns(src.columns)
         IN IF ~Truthy(prompt_col) THEN Raised("ValueError: no prompt column")
            ELSE IF StepKeys(cols) = {} THEN Raised("ValueError: no step columns")
            ELSE LET max_step == MaxStep(StepKeys(cols))
                     df == iterrows(src.rows)
                 IN [outcome |-> "returned", error |-> "", max_step |-> max_step,
                     written |-> TRUE,
                     fieldnames |-> fieldnames(max_step),
                     rows |-> [i \in 1..Len(df) |->
                                 Record(model_dir, src.columns, df[i], prompt_col,
                                        editing_col, cols, max_step)]]

(***************************************************************************)
(* Specification SpecStd: the Standardizer applied to every bounded source.*)
(***************************************************************************)
MaxCols == 3
MaxSrcRows == 2

\* header lines: pd.read_csv renames repeated names, so the names differ
HeaderLists ==
    {h \in SeqsUpTo(HeaderNames, MaxCols) : \A i, j \in 1..Len(h) : h[i] = h[j] => i = j}

\* the cell of a row of each kind in column c
RowKinds == {"rel", "abs", "mixed", "blank"}
CellAt(kind, c) ==
    CASE kind = "rel" -> Cell(<<"r", "/">> \o DigitStr(c))
      [] kind = "blank" -> Cell(<<" ">>)
      [] kind = "abs" -> Cell(<<" ", "/", "x", "/", ".", ".", "/", "a">> \o DigitStr(c) \o <<" ">>)
      [] OTHER -> IF c % 2 = 1 THEN NullCell ELSE Cell(<<".", ".", "/", "u">> \o DigitStr(c))

SourceRow(kind, n) == [c \in 1..n |-> CellAt(kind, c)]
MissingSource == [exists |-> FALSE, columns |-> <<>>, rows |-> <<>>]
\* a file without a header line
HeaderlessSource == [exists |-> TRUE, columns |-> <<>>, rows |-> <<>>]
Sources ==
    {[exists |-> TRUE, columns |-> h, rows |-> [i \in 1..Len(kinds) |-> SourceRow(kinds[i], Len(h))]] :
        h \in HeaderLists \ {<<>>}, kinds \in SeqsUpTo(RowKinds, MaxSrcRows)}
    \cup {MissingSource, HeaderlessSource}

ModelDir == [root |-> <<"/">>, parts |-> << <<"d">>, <<"m">> >>]
\* the file at output_csv and its parent directory: neither exists, or both
\* do and the file is left from an earlier run
NoCanonical == [exists |-> FALSE, dir |-> FALSE, fieldnames |-> <<>>, rows |-> <<>>]
StaleCanonical == [exists |-> TRUE, dir |-> TRUE, fieldnames |-> fieldnames(0), rows |-> <<>>]

\* lines 88-103: the parent directory is made, the file is opened with "w",
\* which empties it, and the header and the records are written
open_a(file, header, records) ==
    IF file.exists
    THEN [exists |-> TRUE, dir |-> TRUE, fieldnames |-> file.fieldnames,
          rows |-> file.rows \o <<header>> \o records]
    ELSE [exists |-> TRUE, dir |-> TRUE, fieldnames |-> header, rows |-> records]
open_w(file, header, records) ==
    [exists |-> TRUE, dir |-> TRUE, fieldnames |-> header, rows |-> records]

NoPrev == [outcome |-> "none"]

InitStd ==
    /\ std_src \in Sources
    /\ std_pc = "ready"
    /\ std_ret = -1
    /\ canonical_csv \in {NoCanonical, StaleCanonical}
    /\ std_prev = NoPrev

\* one call of standardise_model_csv(ModelDir, ModelDir / SOURCE_CSV, output_csv)
Standardise ==
    \E r \in {standardise_model_csv(ModelDir, std_src)} :
       /\ std_pc' = r.outcome
       /\ std_ret' = r.max_step
       /\ canonical_csv' =
             IF r.written
             THEN open_w(canonical_csv, r.fieldnames, r.rows)
             ELSE canonical_csv

StandardiseCall ==
    /\ std_pc = "ready"
    /\ Standardise
    /\ UNCHANGED <<std_src, std_prev>>

(***************************************************************************)
(* Best/Worst Summarizer: summarize_best_worst.                            *)
(*                                                                         *)
(* A cell of the table read by pd.read_csv is a number, a missing value    *)
(* (NaN) or a text that is not a number.  Row labels are the positions     *)
(* 1..Len(rows) of the default RangeIndex; the label NaN is NoIdx.         *)
(***************************************************************************)
NaN == [kind |-> "nan", v |-> 0]
Num(n) == [kind |-> "num", v |-> n]
Text == [kind |-> "text", v |-> 0]
NoIdx == 0
Absent == [exists |-> FALSE, rows |-> <<>>]
File(rows) == [exists |-> TRUE, rows |-> rows]

numeric_cols == {"accuracy", "precision", "recall", "f1"}
AllColumns == {"group_id"} \cup numeric_cols

\* pd.to_numeric(cell, errors='coerce')
to_numeric_keep_text(cell) == IF cell.kind = "nan" THEN NaN ELSE Num(cell.v)
to_numeric(cell) == IF cell.kind = "num" THEN cell ELSE NaN

\* lines 155-156 restricted to the f1 column the selection reads
CoerceF1(rows) == [i \in 1..Len(rows) |-> [rows[i] EXCEPT !.f1 = to_numeric(@)]]

\* the group keys of df.groupby('group_id'): rows with a NaN key are dropped
GroupKeys(df) == {df[i].group_id.v : i \in {j \in 1..Len(df) : df[j].group_id.kind = "num"}}

InGroup(df, i, g) == df[i].group_id.kind = "num" /\ df[i].group_id.v = g

\* the comparison by which a later row replaces the current extreme
BetterMaxLast(x, cur) == x >= cur
BetterMax(x, cur) == x > cur
BetterMin(x, cur) == x < cur

RECURSIVE ScanMax(_, _, _, _)
ScanMax(df, g, i, cur) ==
    IF i > Len(df) THEN cur
    ELSE IF InGroup(df, i, g) /\ df[i].f1.kind = "num"
            /\ (cur = NoIdx \/ BetterMax(df[i].f1.v, df[cur].f1.v))
         THEN ScanMax(df, g, i + 1, i)
         ELSE ScanMax(df, g, i + 1, cur)

RECURSIVE ScanMin(_, _, _, _)
ScanMin(df, g, i, cur) ==
    IF i > Len(df) THEN cur
    ELSE IF InGroup(df, i, g) /\ df[i].f1.kind = "num"
            /\ (cur = NoIdx \/ BetterMin(df[i].f1.v, df[cur].f1.v))
         THEN ScanMin(df, g, i + 1, i)
         ELSE ScanMin(df, g, i + 1, cur)

\* df.groupby('group_id')['f1'].idxmax(): one label per group key, in key
\* order; NoIdx for a group whose f1 values are all missing
idxmax(df) ==
    LET keys == SetToSortedSeq(GroupKeys(df))
    IN [k \in 1..Len(keys) |-> ScanMax(df, keys[k], 1, NoIdx)]

\* df.groupby('group_id')['f1'].idxmin(): missing f1 values are skipped, as
\* by idxmax
idxmin_no_skip(df) ==
    LET keys == SetToSortedSeq(GroupKeys(df))
    IN [k \in 1..Len(keys) |->
          IF \E i \in 1..Len(df) : InGroup(df, i, keys[k]) /\ df[i].f1.kind # "num"
          THEN NoIdx
          ELSE ScanMin(df, keys[k], 1, NoIdx)]
idxmin(df) ==
    LET keys == SetToSortedSeq(GroupKeys(df))
    IN [k \in 1..Len(keys) |-> ScanMin(df, keys[k], 1, NoIdx)]

dropna(s) == SelectSeq(s, LAMBDA x : x # NoIdx)

\* df.loc[idx]: the selected rows, each with its label
loc(df, idx) == [k \in 1..Len(idx) |-> [idx |-> idx[k], row |-> df[idx[k]]]]

RowKey(r) == r.row.group_id.v

\* the rows of one side that merge() pairs under key g
MatchAny(side, g) == {k \in 1..Len(side) : TRUE}
MatchKey(side, g) == {k \in 1..Len(side) : RowKey(side[k]) = g}

NoRow == [idx |-> NoIdx, row |-> [group_id |-> NaN, f1 |-> NaN]]

\* best.merge(worst, left_on='best_group_id', right_on='worst_group_id',
\*            how='outer'), then lines 165-167: one row per pair of a best and
\* a worst row with the same key, keys in sorted order; a key present on one
\* side only is paired with an all-missing row
RECURSIVE MergeKeys(_, _, _)
MergeKeys(best, worst, keys) ==
    IF keys = <<>> THEN <<>>
    ELSE LET g == Head(keys)
             L == SetToSortedSeq(MatchKey(best, g))
             R == SetToSortedSeq(MatchKey(worst, g))
             pairs ==
                 IF L = <<>>
                 THEN [k \in 1..Len(R) |-> [group_id |-> g, best |-> NoRow, worst |-> worst[R[k]]]]
                 ELSE IF R = <<>>
                 THEN [k \in 1..Len(L) |-> [group_id |-> g, best |-> best[L[k]], worst |-> NoRow]]
                 ELSE [k \in 1..(Len(L) * Len(R)) |->
                         [group_id |-> g,
                          best |-> best[L[((k - 1) \div Len(R)) + 1]],
                          worst |-> worst[R[((k - 1) % Len(R)) + 1]]]]
         IN pairs \o MergeKeys(best, worst, Tail(keys))

merge(best, worst) ==
    MergeKeys(best, worst,
        SetToSortedSeq({RowKey(best[k]) : k \in 1..Len(best)}
                       \cup {RowKey(worst[k]) : k \in 1..Len(worst)}))

\* the guard of lines 152-153
NothingToSummarizeAnd(t) == t.rows = <<>> /\ "group_id" \notin t.cols
NothingToSummarize(t) == t.rows = <<>> \/ "group_id" \notin t.cols

\* summarize_best_worst as a function of the file at summary_csv: how the
\* call ends, whether output_csv is written, and the rows written
summarize_best_worst(t) ==
    IF ~t.readable
    THEN [outcome |-> "raised", written |-> FALSE, out |-> <<>>]
    ELSE IF NothingToSummarize(t)
    THEN [outcome |-> "returned", written |-> FALSE, out |-> <<>>]
    ELSE IF ~(AllColumns \subseteq t.cols)
    THEN [outcome |-> "raised", written |-> FALSE, out |-> <<>>]
    ELSE LET df == CoerceF1(t.rows)
             best_idx == dropna(idxmax(df))
             worst_idx == dropna(idxmin(df))
             combined == merge(loc(df, best_idx), loc(df, worst_idx))
         IN [outcome |-> "returned", written |-> TRUE, out |-> combined]

\* the tables and output files of the model
GroupCells == {NaN} \cup {Num(g) : g \in 1..NumGroups}
F1Cells == {NaN, Text} \cup {Num(n) : n \in 1..MaxF1}
MetricRows == [group_id : GroupCells, f1 : F1Cells]
ColumnSets == {AllColumns, AllColumns \ {"group_id"}, AllColumns \ {"f1"}}
\* a summary_csv that is missing or has no header line: pd.read_csv raises
Unreadable == [readable |-> FALSE, cols |-> {}, rows |-> <<>>]
Tables ==
    [readable : {TRUE}, cols : ColumnSets, rows : SeqsUpTo(MetricRows, MaxRows)]
    \cup {Unreadable}
StaleOutput == File(<<[group_id |-> 1, best |-> NoRow, worst |-> NoRow]>>)

SumIdle ==
    /\ sum_table = Unreadable
    /\ sum_pc = "idle"
    /\ output_csv = Absent
    /\ output_writes = 0

StdIdle ==
    /\ std_src = MissingSource
    /\ std_pc = "idle"
    /\ std_ret = -1
    /\ canonical_csv = NoCanonical
    /\ std_prev = NoPrev

ColIdle ==
    /\ fc_columns = <<>>
    /\ fc_candidates = <<>>
    /\ fc_pc = "idle"
    /\ fc_ret = NotFound

PathIdle ==
    /\ rp_base_dir = ModelDir
    /\ rp_value = <<>>
    /\ rp_pc = "idle"
    /\ rp_ret = <<>>

CmdIdle ==
    /\ cmd_argv = {}
    /\ cmd_pc = "idle"
    /\ cmd = <<>>

AnaIdle ==
    /\ ana_args = [models |-> <<>>, analysis_type |-> "all", single_type |-> "None"]
    /\ data_files = {}
    /\ ana_pc = "idle"
    /\ single_types = <<>>
    /\ type_pos = 1
    /\ model_pos = 1
    /\ attempted = <<>>
    /\ success_count = 0
    /\ total_count = 0

(***************************************************************************)
(* Pipeline Driver: main().                                                *)
(*                                                                         *)
(* Model directories are named 1..NumModels, so that the sorted directory  *)
(* listing of line 313 is the numeric order.  A timestamp is a number; the *)
(* run's own is Now, an output of an earlier run carries an older one.     *)
(* The external scripts are black boxes: a subprocess exits with 0 or not, *)
(* and on exit 0 has written its output file.                              *)
(***************************************************************************)
NumModels == 2
Models == 1..NumModels
\* a name given with --models for which dataset_root has no directory
Ghost == 0
Now == 2
Older == 1

None == [kind |-> "none", model |-> 0, out |-> 0]
Proc(kind, model, out) == [kind |-> kind, model |-> model, out |-> out]

\* subprocess.run(cmd, check=True): what a finished subprocess does to the caller
run_subprocess_unchecked(code) == "ok"
run_subprocess(code) == IF code = 0 THEN "ok" ELSE "CalledProcessError"

ModelDirOf(m) == [root |-> <<"/">>, parts |-> << <<"d">>, DigitStr(m) >>]

\* prompt-img-path.csv of a model whose standardisation succeeds / fails
GoodSource ==
    [exists |-> TRUE, columns |-> <<h_Prompt, h_Base, h_Edit_1>>,
     rows |-> <<SourceRow("rel", 3)>>]
BadSources ==
    {MissingSource,
     [exists |-> TRUE, columns |-> <<h_Prompt, h_img>>, rows |-> <<SourceRow("rel", 2)>>]}

\* the cultural summary CSV a successful cultural scorer leaves behind
GoodTable ==
    [readable |-> TRUE, cols |-> AllColumns,
     rows |-> <<[group_id |-> Num(1), f1 |-> Num(2)], [group_id |-> Num(1), f1 |-> Num(1)]>>]
EmptyTable == [readable |-> TRUE, cols |-> AllColumns, rows |-> <<>>]
ScorerTables == {GoodTable, EmptyTable, Unreadable}
\* the detail CSV (--detail-csv) a successful cultural scorer leaves behind
DetailTable ==
    [readable |-> TRUE, cols |-> AllColumns,
     rows |-> <<[group_id |-> Num(1), f1 |-> Num(1)], [group_id |-> Num(2), f1 |-> Num(2)]>>]

\* the output files of one model: the timestamps of its general_metrics_*.csv
\* and of their *_summary.csv companions, and, for the run's own timestamp,
\* cultural_metrics_*_summary.csv and cultural_metrics_*_detail.csv
\* (Unreadable: no such file) and the rows of cultural_best_worst_*.csv
\* (Absent: no such file); cearlier: a cultural_metrics_*_summary.csv of
\* an earlier run, under that run's timestamp, is in the directory
NoOutputs ==
    [generals |-> {}, gsummaries |-> {}, csummary |-> Unreadable, cdetail |-> Unreadable,
     best_worst |-> Absent, cearlier |-> FALSE]
PriorOutputs ==
    {NoOutputs,
     [NoOutputs EXCEPT !.generals = {Older}, !.gsummaries = {Older}],
     [NoOutputs EXCEPT !.generals = {Older}],
     [NoOutputs EXCEPT !.generals = {Now}, !.gsummaries = {Now}, !.csummary = GoodTable,
                       !.cdetail = DetailTable,
                       !.best_worst = File(summarize_best_worst(GoodTable).out)]}

ModelsChoices == {{}, {1}, {NumModels, Ghost}}

Args ==
    [skip_general : BOOLEAN, skip_cultural : BOOLEAN, force : BOOLEAN,
     reuse_latest_general : BOOLEAN, rebuild_index : BOOLEAN, models : ModelsChoices]

\* the first model directory whose source CSV is not valid is the only one
\* whose failure a run can observe, so at most one source is bad
SourceChoices ==
    {[m \in Models |-> GoodSource]}
    \cup {[m \in Models |-> IF m = b THEN src ELSE GoodSource] : b \in Models, src \in BadSources}

FileSystems ==
    [root_exists : {TRUE}, faiss : BOOLEAN, sources : SourceChoices,
     canonical : {[m \in Models |-> FALSE]}, outputs : [Models -> PriorOutputs]]
    \cup
    [root_exists : {FALSE}, faiss : {FALSE}, sources : {[m \in Models |-> MissingSource]},
     canonical : {[m \in Models |-> FALSE]}, outputs : {[m \in Models |-> NoOutputs]}]

DrvIdle ==
    /\ args = [skip_general |-> TRUE, skip_cultural |-> TRUE, force |-> FALSE,
               reuse_latest_general |-> FALSE, rebuild_index |-> FALSE, models |-> {}]
    /\ fs = [root_exists |-> FALSE, faiss |-> FALSE,
             sources |-> [m \in Models |-> MissingSource],
             canonical |-> [m \in Models |-> FALSE],
             outputs |-> [m \in Models |-> NoOutputs]]
    /\ pc = "idle"
    /\ timestamp = Now
    /\ model_dirs = <<>>
    /\ model_infos = <<>>
    /\ pos = 0
    /\ proc = None
    /\ launched = <<>>
    /\ summarized = <<>>
    /\ failure = None
    /\ error = ""

InitDrv ==
    /\ args \in Args
    /\ fs \in FileSystems
    /\ pc = "start"
    /\ timestamp = Now
    /\ model_dirs = <<>>
    /\ model_infos = <<>>
    /\ pos = 0
    /\ proc = None
    /\ launched = <<>>
    /\ summarized = <<>>
    /\ failure = None
    /\ error = ""

\* an uncaught exception ends main()
Crash(e) == pc' = "crashed" /\ error' = e

\* run_subprocess: the command is launched and main() waits for it
Launch(kind, model, out, wait) ==
    /\ proc' = Proc(kind, model, out)
    /\ launched' = Append(launched, [kind |-> kind, model |-> model])
    /\ pc' = wait

\* the stage main() enters after the standardisation loop / the general loop
AfterStandardiseCoupled == IF ~args.skip_general THEN "general" ELSE "done"
AfterStandardise == IF ~args.skip_general THEN "general" ELSE IF ~args.skip_cultural THEN "cultural" ELSE "done"
AfterGeneral == IF ~args.skip_cultural THEN "cultural" ELSE "done"

\* line 115: rebuild or not faiss_path.exists()
IndexWantedIfMissing == ~fs.faiss
IndexWanted == args.rebuild_index \/ ~fs.faiss

\* lines 291-311: the dataset root check and ensure_cultural_index
Start ==
    /\ pc = "start"
    /\ IF ~fs.root_exists
       THEN Crash("FileNotFoundError") /\ UNCHANGED <<proc, launched>>
       ELSE IF ~args.skip_cultural /\ IndexWanted
       THEN Launch("index", 0, 0, "index_wait") /\ UNCHANGED error
       ELSE pc' = "discover" /\ UNCHANGED <<proc, launched, error>>
    /\ UNCHANGED <<args, fs, timestamp, model_dirs, model_infos, pos, summarized, failure>>
    /\ UNCHANGED <<sumVars, stdVars, colVars, pathVars, cmdVars, anaVars>>

\* the index builder exits
IndexExit ==
    /\ pc = "index_wait"
    /\ \E code \in {0, 1} :
          IF run_subprocess(code) = "ok"
          THEN /\ pc' = "discover"
               /\ fs' = [fs EXCEPT !.faiss = (code = 0) \/ @]
               /\ failure' = IF code # 0 /\ failure = None THEN proc ELSE failure
               /\ UNCHANGED error
          ELSE /\ Crash(run_subprocess(code))
               /\ failure' = proc
               /\ UNCHANGED fs
    /\ proc' = None
    /\ UNCHANGED <<args, timestamp, model_dirs, model_infos, pos, launched, summarized>>
    /\ UNCHANGED <<sumVars, stdVars, colVars, pathVars, cmdVars, anaVars>>

\* line 317: filter_set - {p.name for p in model_dirs}
missing_ignored(filtered) == {}
missing(filtered) == args.models \ Range(filtered)

\* lines 313-321: the sorted directory listing and the --models filter
Discover ==
    /\ pc = "discover"
    /\ LET listing == SetToSortedSeq(Models)
           filtered == SelectSeq(listing, LAMBDA m : m \in args.models)
       IN IF args.models = {}
          THEN model_dirs' = listing /\ pc' = "standardise" /\ UNCHANGED error
          ELSE IF missing(filtered) # {}
          THEN Crash("ValueError") /\ UNCHANGED model_dirs
          ELSE model_dirs' = filtered /\ pc' = "standardise" /\ UNCHANGED error
    /\ pos' = 1
    /\ UNCHANGED <<args, fs, timestamp, model_infos, proc, launched, summarized, failure>>
    /\ UNCHANGED <<sumVars, stdVars, colVars, pathVars, cmdVars, anaVars>>

\* line 324: `for model_dir in model_dirs` has no directory left
StandardiseLoopEndsEarly == pos > 1
StandardiseLoopEnds == pos > Len(model_dirs)

\* lines 324-342: one iteration of the standardisation loop
StandardiseModel ==
    /\ pc = "standardise"
    /\ IF StandardiseLoopEnds
       THEN /\ pc' = AfterStandardise
            /\ pos' = 1
            /\ UNCHANGED <<fs, model_infos, error>>
       ELSE LET m == model_dirs[pos]
            IN \E r \in {standardise_model_csv(ModelDirOf(m), fs.sources[m])} :
                  IF r.outcome = "raised"
                  THEN Crash(r.error) /\ UNCHANGED <<fs, model_infos, pos>>
                  ELSE /\ fs' = [fs EXCEPT !.canonical[m] = TRUE]
                       /\ model_infos' = Append(model_infos, [name |-> m, max_step |-> r.max_step])
                       /\ pos' = pos + 1
                       /\ UNCHANGED <<pc, error>>
    /\ UNCHANGED <<args, timestamp, model_dirs, proc, launched, summarized, failure>>
    /\ UNCHANGED <<sumVars, stdVars, colVars, pathVars, cmdVars, anaVars>>

\* existing_generals[-1]
Latest(S) == CHOOSE x \in S : \A y \in S : y <= x

\* lines 347-351: the timestamps of the model's general_metrics_*.csv files
existing_generals(m) == fs.outputs[m].generals

\* lines 352-354
reuse_existing_forced(m) ==
    args.reuse_latest_general /\ existing_generals(m) # {}
reuse_existing(m) ==
    args.reuse_latest_general /\ ~args.force /\ existing_generals(m) # {}

\* lines 356 and 364: the timestamp in the name of general_out
general_out_fresh(m) == timestamp
general_out(m) == IF reuse_existing(m) THEN Latest(existing_generals(m)) ELSE timestamp

\* lines 359-361 and 367-369: the `continue` of the general loop
GeneralCachedOwnStamp(m) ==
    IF reuse_existing(m)
    THEN timestamp \in fs.outputs[m].gsummaries
    ELSE general_out(m) \in existing_generals(m) /\ ~args.force
GeneralCached(m) ==
    IF reuse_existing(m)
    THEN general_out(m) \in fs.outputs[m].gsummaries
    ELSE general_out(m) \in existing_generals(m) /\ ~args.force

\* lines 346-379: one iteration of the general loop, up to the launch
GeneralModel ==
    /\ pc = "general"
    /\ IF pos > Len(model_infos)
       THEN pc' = AfterGeneral /\ pos' = 1 /\ UNCHANGED <<proc, launched>>
       ELSE LET m == model_infos[pos].name
            IN IF GeneralCached(m)
               THEN pos' = pos + 1 /\ UNCHANGED <<pc, proc, launched>>
               ELSE Launch("general", m, general_out(m), "general_wait") /\ UNCHANGED pos
    /\ UNCHANGED <<args, fs, timestamp, model_dirs, model_infos, summarized, failure, error>>
    /\ UNCHANGED <<sumVars, stdVars, colVars, pathVars, cmdVars, anaVars>>

\* the general scorer exits; on exit 0 it has written general_out, and its
\* summary or not
GeneralExit ==
    /\ pc = "general_wait"
    /\ \E code \in {0, 1}, with_summary \in BOOLEAN :
          IF run_subprocess(code) = "ok"
          THEN /\ pc' = "general"
               /\ pos' = pos + 1
               /\ fs' = IF code = 0
                        THEN [fs EXCEPT
                                !.outputs[proc.model].generals = @ \cup {proc.out},
                                !.outputs[proc.model].gsummaries =
                                    IF with_summary THEN @ \cup {proc.out} ELSE @]
                        ELSE fs
               /\ failure' = IF code # 0 /\ failure = None THEN proc ELSE failure
               /\ UNCHANGED error
          ELSE /\ Crash(run_subprocess(code))
               /\ failure' = proc
               /\ UNCHANGED <<fs, pos>>
    /\ proc' = None
    /\ UNCHANGED <<args, timestamp, model_dirs, model_infos, launched, summarized>>
    /\ UNCHANGED <<sumVars, stdVars, colVars, pathVars, cmdVars, anaVars>>

\* lines 385-416: one iteration of the cultural loop, up to the launch
CulturalModel ==
    /\ pc = "cultural"
    /\ IF pos > Len(model_infos)
       THEN pc' = "done" /\ UNCHANGED <<pos, proc, launched>>
       ELSE LET m == model_infos[pos].name
            IN IF fs.outputs[m].csummary # Unreadable /\ ~args.force
               THEN pos' = pos + 1 /\ UNCHANGED <<pc, proc, launched>>
               ELSE Launch("cultural", m, timestamp, "cultural_wait") /\ UNCHANGED pos
    /\ UNCHANGED <<args, fs, timestamp, model_dirs, model_infos, summarized, failure, error>>
    /\ UNCHANGED <<sumVars, stdVars, colVars, pathVars, cmdVars, anaVars>>

\* the cultural scorer exits; on exit 0 it leaves some summary CSV
CulturalExit ==
    /\ pc = "cultural_wait"
    /\ \E code \in {0, 1}, table \in ScorerTables :
          IF run_subprocess(code) = "ok"
          THEN /\ pc' = "summarize"
               /\ fs' = IF code = 0
                        THEN [fs EXCEPT !.outputs[proc.model].csummary = table,
                                        !.outputs[proc.model].cdetail = DetailTable]
                        ELSE fs
               /\ failure' = IF code # 0 /\ failure = None THEN proc ELSE failure
               /\ UNCHANGED error
          ELSE /\ Crash(run_subprocess(code))
               /\ failure' = proc
               /\ UNCHANGED fs
    /\ proc' = None
    /\ UNCHANGED <<args, timestamp, model_dirs, model_infos, pos, launched, summarized>>
    /\ UNCHANGED <<sumVars, stdVars, colVars, pathVars, cmdVars, anaVars>>

\* the file passed as summary_csv at line 417: cultural_summary of line 386
summary_csv_detail(m) == fs.outputs[m].cdetail
summary_csv(m) == fs.outputs[m].csummary

\* line 417: summarize_best_worst(cultural_summary, cultural_best_worst)
Summarize ==
    /\ pc = "summarize"
    /\ LET m == model_infos[pos].name
       IN \E r \in {summarize_best_worst(summary_csv(m))} :
             /\ summarized' = Append(summarized, m)
             /\ IF r.outcome = "raised"
                THEN Crash("summarize_best_worst") /\ UNCHANGED <<fs, pos>>
                ELSE /\ pc' = "cultural"
                     /\ pos' = pos + 1
                     /\ fs' = [fs EXCEPT !.outputs[m].best_worst =
                                               IF r.written THEN File(r.out) ELSE @]
                     /\ UNCHANGED error
    /\ UNCHANGED <<args, timestamp, model_dirs, model_infos, proc, launched, failure>>
    /\ UNCHANGED <<sumVars, stdVars, colVars, pathVars, cmdVars, anaVars>>

Next ==
    \/ Start
    \/ IndexExit
    \/ Discover
    \/ StandardiseModel
    \/ GeneralModel
    \/ GeneralExit
    \/ CulturalModel
    \/ CulturalExit
    \/ Summarize

Init == InitDrv /\ SumIdle /\ StdIdle /\ ColIdle /\ PathIdle /\ CmdIdle /\ AnaIdle

Spec == Init /\ [][Next]_vars

(***************************************************************************)
(* Specification SpecRuns: two pipeline runs on one file system.  The      *)
(* first run starts on model directories without outputs; when it is over, *)
(* main() is started again, at a later second, on the files it left.       *)
(***************************************************************************)
\* the timestamp of line 321 in the later run
Later == 3

\* the entry of launched that separates the launches of the two runs
NewRun == [kind |-> "run", model |-> 0]

\* the command lines of the runs: every model, no index rebuild
RunArgs ==
    [skip_general : BOOLEAN, skip_cultural : BOOLEAN, force : BOOLEAN,
     reuse_latest_general : BOOLEAN, rebuild_index : {FALSE}, models : {{}}]

InitRuns ==
    /\ args \in RunArgs
    /\ fs \in [root_exists : {TRUE}, faiss : BOOLEAN,
                sources : {[m \in Models |-> GoodSource]},
                canonical : {[m \in Models |-> FALSE]},
                outputs : {[m \in Models |-> NoOutputs]}]
    /\ pc = "start"
    /\ timestamp = Now
    /\ model_dirs = <<>>
    /\ model_infos = <<>>
    /\ pos = 0
    /\ proc = None
    /\ launched = <<>>
    /\ summarized = <<>>
    /\ failure = None
    /\ error = ""
    /\ SumIdle /\ StdIdle /\ ColIdle /\ PathIdle /\ CmdIdle /\ AnaIdle

\* what the later run finds: the files of the first run keep their names,
\* so no cultural file carries the later run's timestamp yet
LaterOutputs(o) ==
    [o EXCEPT !.csummary = Unreadable, !.cdetail = Unreadable, !.best_worst = Absent,
              !.cearlier = @ \/ o.csummary # Unreadable]

\* lines 259-289 of the later run: main() is entered again with its own
\* command line
Restart ==
    /\ pc \in {"done", "crashed"}
    /\ timestamp = Now
    /\ args' \in {a \in RunArgs : a.skip_general = args.skip_general
                                  /\ a.skip_cultural = args.skip_cultural}
    /\ timestamp' = Later
    /\ fs' = [fs EXCEPT !.outputs = [m \in Models |-> LaterOutputs(fs.outputs[m])]]
    /\ pc' = "start"
    /\ model_dirs' = <<>>
    /\ model_infos' = <<>>
    /\ pos' = 0
    /\ proc' = None
    /\ launched' = Append(launched, NewRun)
    /\ summarized' = <<>>
    /\ failure' = None
    /\ error' = ""
    /\ UNCHANGED <<sumVars, stdVars, colVars, pathVars, cmdVars, anaVars>>

NextRuns ==
    \/ Start
    \/ IndexExit
    \/ Discover
    \/ StandardiseModel
    \/ GeneralModel
    \/ GeneralExit
    \/ CulturalModel
    \/ CulturalExit
    \/ Summarize
    \/ Restart

SpecRuns == InitRuns /\ [][NextRuns]_vars

(***************************************************************************)
(* Specification SpecSum: the Summarizer applied to every bounded table.   *)
(***************************************************************************)
InitSum ==
    /\ sum_table \in Tables
    /\ sum_pc = "ready"
    /\ output_csv \in {Absent, StaleOutput}
    /\ output_writes = 0
    /\ StdIdle
    /\ DrvIdle
    /\ ColIdle
    /\ PathIdle /\ CmdIdle /\ AnaIdle

SummarizeCall ==
    /\ sum_pc = "ready"
    /\ \E r \in {summarize_best_worst(sum_table)} :
          /\ sum_pc' = r.outcome
          /\ output_csv' = IF r.written THEN File(r.out) ELSE output_csv
          /\ output_writes' = IF r.written THEN output_writes + 1 ELSE output_writes
    /\ UNCHANGED <<sum_table, stdVars, drvVars, colVars, pathVars, cmdVars, anaVars>>

NextSum == SummarizeCall

SpecSum == InitSum /\ [][NextSum]_vars

InitStdSpec == InitStd /\ SumIdle /\ DrvIdle /\ ColIdle /\ PathIdle /\ CmdIdle /\ AnaIdle

NextStd == StandardiseCall /\ UNCHANGED <<sumVars, drvVars, colVars, pathVars, cmdVars, anaVars>>

SpecStd == InitStdSpec /\ [][NextStd]_vars

(***************************************************************************)
(* Specification SpecTwice: standardise_model_csv called twice in a row    *)
(* with the same model directory, source file and output path, for every   *)
(* bounded source of at most one data row.                                 *)
(***************************************************************************)
InitTwice ==
    /\ InitStdSpec
    /\ Len(std_src.rows) <= 1

StandardiseFirst ==
    /\ StandardiseCall
    /\ UNCHANGED <<sumVars, drvVars, colVars, pathVars, cmdVars, anaVars>>

StandardiseAgain ==
    /\ std_pc \in {"returned", "raised"}
    /\ std_prev = NoPrev
    /\ Standardise
    /\ std_prev' = [outcome |-> std_pc, max_step |-> std_ret, file |-> canonical_csv]
    /\ UNCHANGED <<std_src, sumVars, drvVars, colVars, pathVars, cmdVars, anaVars>>

NextTwice ==
    \/ StandardiseFirst
    \/ StandardiseAgain

SpecTwice == InitTwice /\ [][NextTwice]_vars

(***************************************************************************)
(* Specification SpecCol: find_column applied to every bounded header list *)
(* and to the candidate lists of the Standardizer and some others.         *)
(***************************************************************************)
ColumnLists ==
    {h \in SeqsUpTo(ColumnNames, MaxCols) : \A i, j \in 1..Len(h) : h[i] = h[j] => i = j}

CandidateLists ==
    {PromptCandidates, EditingCandidates, Step0Candidates, StepCandidates(1),
     StepCandidates(3), <<>>, <<s_text, c_PROMPT_pad>>, <<c_PROMPT_pad, s_text>>}

InitCol ==
    /\ fc_columns \in ColumnLists
    /\ fc_candidates \in CandidateLists
    /\ fc_pc = "ready"
    /\ fc_ret = NotFound
    /\ SumIdle /\ StdIdle /\ DrvIdle /\ PathIdle /\ CmdIdle /\ AnaIdle

FindColumnCall ==
    /\ fc_pc = "ready"
    /\ fc_ret' = find_column(fc_columns, fc_candidates)
    /\ fc_pc' = "returned"
    /\ UNCHANGED <<fc_columns, fc_candidates, sumVars, stdVars, drvVars, pathVars, cmdVars, anaVars>>

NextCol == FindColumnCall

SpecCol == InitCol /\ [][NextCol]_vars

(***************************************************************************)
(* Specification SpecPath: resolve_path applied to every bounded value.    *)
(* A value is up to MaxSegs components joined by "/", relative or with a   *)
(* leading "/", bare or padded with blanks; or it is empty or blank.       *)
(***************************************************************************)
MaxSegs == 3

Segments == {<<"a">>, <<"b">>, <<".">>, <<".", ".">>}
SegmentLists == SeqsUpTo(Segments, MaxSegs) \ {<<>>}
PathValues ==
    {lead \o JoinParts(segs) \o pad :
        lead \in {<<>>, <<"/">>, <<" ", "/">>}, segs \in SegmentLists, pad \in {<<>>, <<" ">>}}
    \cup {<<>>, <<" ", " ">>}

\* the base directories: a model directory given absolute, and one given
\* relative to the working directory
RelativeModelDir == [root |-> <<>>, parts |-> << <<"d">>, <<"m">> >>]
BaseDirs == {ModelDir, RelativeModelDir}

InitPath ==
    /\ rp_base_dir \in BaseDirs
    /\ rp_value \in PathValues
    /\ rp_pc = "ready"
    /\ rp_ret = <<>>
    /\ SumIdle /\ StdIdle /\ DrvIdle /\ ColIdle /\ CmdIdle /\ AnaIdle

ResolvePathCall ==
    /\ rp_pc = "ready"
    /\ rp_ret' = resolve_path(rp_base_dir, rp_value)
    /\ rp_pc' = "returned"
    /\ UNCHANGED <<rp_base_dir, rp_value, sumVars, stdVars, drvVars, colVars, cmdVars, anaVars>>

NextPath == ResolvePathCall

SpecPath == InitPath /\ [][NextPath]_vars

(***************************************************************************)
(* Cultural scorer command: the argument list run_cultural_metric builds   *)
(* from the driver's command-line flags.  Option values that no flag       *)
(* changes are written as the name of the variable that holds them.        *)
(***************************************************************************)
\* argparse action="store_true" with a default: the flag sets True, and
\* without the flag the value is the default
store_true_no_default(given, flag, default) == flag \in given
store_true(given, flag, default) == IF flag \in given THEN TRUE ELSE default

DriverFlags ==
    {"--load-in-8bit", "--load-in-4bit", "--cultural-debug",
     "--cultural-strict-question-min", "--cultural-rating", "--cultural-vlm-selection",
     "--use-enhanced-cultural", "--no-resume"}

\* parser.parse_args(), for the flags run_cultural_metric is called with
parse_args(given) ==
    [load_in_8bit |-> store_true(given, "--load-in-8bit", FALSE),
     load_in_4bit |-> store_true(given, "--load-in-4bit", FALSE),
     cultural_debug |-> store_true(given, "--cultural-debug", FALSE),
     cultural_strict_question_min |-> store_true(given, "--cultural-strict-question-min", FALSE),
     cultural_rating |-> store_true(given, "--cultural-rating", FALSE),
     cultural_vlm_selection |-> store_true(given, "--cultural-vlm-selection", FALSE),
     use_enhanced_cultural |-> store_true(given, "--use-enhanced-cultural", TRUE),
     no_resume |-> store_true(given, "--no-resume", FALSE)]

\* info["image_columns"] of a standardised model: never empty
image_columns == <<"step0_path", "step1_path">>

\* cmd of run_cultural_metric, lines 197-254
run_cultural_metric(columns, load_in_8bit, load_in_4bit, debug, require_question_min, enable_rating, enable_vlm_selection, use_enhanced, resume) ==
    <<"python_exec",
      IF use_enhanced THEN "enhanced_cultural_metric_pipeline.py"
      ELSE "cultural_metric_pipeline.py",
      "--input-csv", "csv_path", "--image-root", "dataset_root",
      "--summary-csv", "summary_path", "--detail-csv", "detail_path",
      "--index-dir", "index_dir", "--question-model", "question_model",
      "--vlm-model", "vlm_model", "--max-questions", "max_questions",
      "--min-questions", "min_questions", "--min-negative", "min_negative",
      "--top-k", "top_k">>
    \o (IF use_enhanced
        THEN (IF resume THEN <<"--resume">> ELSE <<>>)
             \o <<"--batch-size", "1">>
             \o <<"--save-frequency", "5">>
             \o <<"--checkpoint-dir", "checkpoints">>
        ELSE (IF columns # <<>> THEN <<"--image-columns">> \o columns ELSE <<>>)
             \o (IF require_question_min THEN <<"--require-question-minimum">> ELSE <<>>)
             \o (IF enable_rating THEN <<"--enable-rating">> ELSE <<>>)
             \o (IF enable_vlm_selection THEN <<"--enable-vlm-selection">> ELSE <<>>))
    \o (IF load_in_8bit THEN <<"--load-in-8bit">> ELSE <<>>)
    \o (IF load_in_4bit THEN <<"--load-in-4bit">> ELSE <<>>)
    \o (IF debug THEN <<"--debug">> ELSE <<>>)

(***************************************************************************)
(* Specification SpecCmd: the cultural scorer command built for every set  *)
(* of driver flags.                                                        *)
(***************************************************************************)
InitCmd ==
    /\ cmd_argv \in SUBSET DriverFlags
    /\ cmd_pc = "ready"
    /\ cmd = <<>>
    /\ SumIdle /\ StdIdle /\ DrvIdle /\ ColIdle /\ PathIdle /\ AnaIdle

\* lines 289 and 393-416: the flags are parsed and the command is built
BuildCulturalCommand ==
    /\ cmd_pc = "ready"
    /\ LET a == parse_args(cmd_argv)
       IN cmd' = run_cultural_metric(image_columns, a.load_in_8bit, a.load_in_4bit,
                                     a.cultural_debug, a.cultural_strict_question_min,
                                     a.cultural_rating, a.cultural_vlm_selection,
                                     a.use_enhanced_cultural, ~a.no_resume)
    /\ cmd_pc' = "built"
    /\ UNCHANGED <<cmd_argv, sumVars, stdVars, drvVars, colVars, pathVars, anaVars>>

NextCmd == BuildCulturalCommand

SpecCmd == InitCmd /\ [][NextCmd]_vars

(***************************************************************************)
(* Analysis runner: main() of analysis/scripts/run_analysis.py.  The       *)
(* analysis scripts are black boxes: subprocess.run starts one and it      *)
(* exits with 0, exits with another code (CalledProcessError) or cannot be *)
(* started (FileNotFoundError).                                            *)
(***************************************************************************)
Outcomes == {"ok", "CalledProcessError", "FileNotFoundError"}

\* the except clauses of lines 31-36, 48-53, 65-70 and 89-94
caught_missing_only(outcome) == outcome = "FileNotFoundError"
caught(outcome) == outcome \in {"CalledProcessError", "FileNotFoundError"}

\* missing_models of check_data_availability, lines 101-107
missing_models(models) == {i \in 1..Len(models) : models[i] \notin data_files}

\* check_data_availability(models), lines 109-113
check_data_availability(models) == missing_models(models) = {}

Analysis(kind, type, model) == [kind |-> kind, type |-> type, model |-> model]

\* total_count += 1 and the call of a run_*_analysis function, up to the
\* start of its subprocess
Attempt(analysis, wait) ==
    /\ total_count' = total_count + 1
    /\ attempted' = Append(attempted, analysis)
    /\ ana_pc' = wait

\* the subprocess ends: the function returns True or False and main() adds
\* to success_count; an exception no clause catches leaves main()
Finish(outcome, next) ==
    IF outcome = "ok"
    THEN success_count' = success_count + 1 /\ ana_pc' = next
    ELSE IF caught(outcome)
    THEN success_count' = success_count /\ ana_pc' = next
    ELSE success_count' = success_count /\ ana_pc' = "crashed"

\* lines 131-140: the availability check and the test of --single-type
CheckDataAvailability ==
    /\ ana_pc = "check"
    /\ IF ~check_data_availability(ana_args.models)
       THEN ana_pc' = "returned" /\ UNCHANGED single_types
       ELSE IF ana_args.analysis_type \in {"all", "single"}
       THEN IF ana_args.analysis_type = "single" /\ ana_args.single_type = "None"
            THEN ana_pc' = "returned" /\ UNCHANGED single_types
            ELSE /\ ana_pc' = "single"
                 /\ single_types' = IF ana_args.analysis_type = "all"
                                    THEN <<"cultural", "general">>
                                    ELSE <<ana_args.single_type>>
       ELSE /\ ana_pc' = IF ana_args.analysis_type = "core" THEN "core" ELSE "multi_cultural"
            /\ UNCHANGED single_types
    /\ UNCHANGED <<ana_args, data_files, type_pos, model_pos, attempted, success_count,
                   total_count>>
    /\ UNCHANGED <<sumVars, stdVars, drvVars, colVars, pathVars, cmdVars>>

\* lines 144-156: the loops over the single-model types and the models, up
\* to the start of the subprocess of run_single_model_analysis
SingleModelLoop ==
    /\ ana_pc = "single"
    /\ IF type_pos > Len(single_types)
       THEN /\ ana_pc' = IF ana_args.analysis_type = "all" THEN "core" ELSE "returned"
            /\ UNCHANGED <<type_pos, model_pos, attempted, total_count>>
       ELSE IF model_pos > Len(ana_args.models)
       THEN /\ type_pos' = type_pos + 1
            /\ model_pos' = 1
            /\ UNCHANGED <<ana_pc, attempted, total_count>>
       ELSE /\ Attempt(Analysis("single", single_types[type_pos], ana_args.models[model_pos]),
                       "single_wait")
            /\ UNCHANGED <<type_pos, model_pos>>
    /\ UNCHANGED <<ana_args, data_files, single_types, success_count>>
    /\ UNCHANGED <<sumVars, stdVars, drvVars, colVars, pathVars, cmdVars>>

\* lines 26-36 and 148-149 / 155-156
SingleModelExit ==
    /\ ana_pc = "single_wait"
    /\ \E outcome \in Outcomes : Finish(outcome, "single")
    /\ model_pos' = model_pos + 1
    /\ UNCHANGED <<ana_args, data_files, single_types, type_pos, attempted, total_count>>
    /\ UNCHANGED <<sumVars, stdVars, drvVars, colVars, pathVars, cmdVars>>

\* lines 160-161, 164-165, 170-171, 174-175: the next fixed analysis starts
FixedAnalysis ==
    /\ ana_pc \in {"core", "summary", "multi_cultural", "multi_general"}
    /\ CASE ana_pc = "core" -> Attempt(Analysis("core", "None", 0), "core_wait")
         [] ana_pc = "summary" -> Attempt(Analysis("summary", "None", 0), "summary_wait")
         [] ana_pc = "multi_cultural" ->
                Attempt(Analysis("multi", "cultural", 0), "multi_cultural_wait")
         [] ana_pc = "multi_general" ->
                Attempt(Analysis("multi", "general", 0), "multi_general_wait")
    /\ UNCHANGED <<ana_args, data_files, single_types, type_pos, model_pos, success_count>>
    /\ UNCHANGED <<sumVars, stdVars, drvVars, colVars, pathVars, cmdVars>>

\* lines 43-53 and 161-162: run_core_analysis ends
CoreExit ==
    /\ ana_pc = "core_wait"
    /\ \E outcome \in Outcomes : Finish(outcome, "summary")
    /\ UNCHANGED <<ana_args, data_files, single_types, type_pos, model_pos, attempted,
                   total_count>>
    /\ UNCHANGED <<sumVars, stdVars, drvVars, colVars, pathVars, cmdVars>>

\* lines 60-70, 165-168: run_summary_analysis ends
SummaryExit ==
    /\ ana_pc = "summary_wait"
    /\ \E outcome \in Outcomes :
          Finish(outcome, IF ana_args.analysis_type = "all" THEN "multi_cultural" ELSE "returned")
    /\ UNCHANGED <<ana_args, data_files, single_types, type_pos, model_pos, attempted,
                   total_count>>
    /\ UNCHANGED <<sumVars, stdVars, drvVars, colVars, pathVars, cmdVars>>

\* lines 84-94, 171-176: run_multi_model_analysis ends
MultiModelExit ==
    /\ ana_pc \in {"multi_cultural_wait", "multi_general_wait"}
    /\ \E outcome \in Outcomes :
          Finish(outcome, IF ana_pc = "multi_cultural_wait" THEN "multi_general" ELSE "returned")
    /\ UNCHANGED <<ana_args, data_files, single_types, type_pos, model_pos, attempted,
                   total_count>>
    /\ UNCHANGED <<sumVars, stdVars, drvVars, colVars, pathVars, cmdVars>>

(***************************************************************************)
(* Specification SpecAna: run_analysis.main() for every bounded command    *)
(* line and set of data files.                                             *)
(***************************************************************************)
\* --models has nargs='+': one name or more, repeats allowed
AnaArgs ==
    [models : SeqsUpTo(Models, NumModels) \ {<<>>},
     analysis_type : {"all", "single", "multi", "core"},
     single_type : {"None", "cultural", "general"}]

InitAna ==
    /\ ana_args \in AnaArgs
    /\ data_files \in SUBSET Models
    /\ ana_pc = "check"
    /\ single_types = <<>>
    /\ type_pos = 1
    /\ model_pos = 1
    /\ attempted = <<>>
    /\ success_count = 0
    /\ total_count = 0
    /\ SumIdle /\ StdIdle /\ DrvIdle /\ ColIdle /\ PathIdle /\ CmdIdle

NextAna ==
    \/ CheckDataAvailability
    \/ SingleModelLoop
    \/ SingleModelExit
    \/ FixedAnalysis
    \/ CoreExit
    \/ SummaryExit
    \/ MultiModelExit

SpecAna == InitAna /\ [][NextAna]_vars

(***************************************************************************)
(* Claims about the Summarizer, checked under SpecSum.                     *)
(***************************************************************************)
Summarized == sum_pc = "returned" /\ output_writes = 1
InRows == sum_table.rows
OutRows == output_csv.rows
ValidF1(i) == InRows[i].f1.kind = "num"
Member(i, g) == InRows[i].group_id = Num(g)
ValidMembers(g) == {i \in 1..Len(InRows) : Member(i, g) /\ ValidF1(i)}
IsFirstMax(i, g) ==
    /\ i \in ValidMembers(g)
    /\ \A j \in ValidMembers(g) : InRows[j].f1.v <= InRows[i].f1.v
    /\ \A j \in ValidMembers(g) : j < i => InRows[j].f1.v < InRows[i].f1.v
IsFirstMin(i, g) ==
    /\ i \in ValidMembers(g)
    /\ \A j \in ValidMembers(g) : InRows[j].f1.v >= InRows[i].f1.v
    /\ \A j \in ValidMembers(g) : j < i => InRows[j].f1.v > InRows[i].f1.v

\* C1: in every row the Summarizer writes, the best_ fields are those of the
\* first row of that group holding the maximum non-missing f1 and the worst_
\* fields those of the first row holding the minimum non-missing f1.
C1_BestWorstSelection ==
    Summarized =>
        \A k \in 1..Len(OutRows) :
            LET r == OutRows[k]
            IN /\ IsFirstMax(r.best.idx, r.group_id)
               /\ IsFirstMin(r.worst.idx, r.group_id)
               /\ r.best.row.f1 = InRows[r.best.idx].f1
               /\ r.worst.row.f1 = InRows[r.worst.idx].f1

\* C1 witness: a summarized group of three rows in which a later row ties
\* the maximum f1 and the remaining row holds the minimum.
C1_Witness ==
    /\ Summarized
    /\ \E k \in 1..Len(OutRows) :
          LET r == OutRows[k]
          IN /\ r.best.idx # r.worst.idx
             /\ r.best.row.f1 # r.worst.row.f1
             /\ \E j \in ValidMembers(r.group_id) :
                   j > r.best.idx /\ InRows[j].f1 = r.best.row.f1

\* C2: the output has at most one row per group_id, and every group_id of
\* the output is the group_id of some input row.
C2_OneRowPerGroup ==
    Summarized =>
        /\ \A k1, k2 \in 1..Len(OutRows) :
              OutRows[k1].group_id = OutRows[k2].group_id => k1 = k2
        /\ \A k \in 1..Len(OutRows) :
              \E i \in 1..Len(InRows) : Member(i, OutRows[k].group_id)

\* C2 witness: two groups summarized from three input rows.
C2_Witness ==
    /\ Summarized
    /\ Len(OutRows) = 2
    /\ Len(InRows) = 3
    /\ \A i \in 1..3 : ValidF1(i) /\ InRows[i].group_id.kind = "num"

\* C3: a row whose f1 is missing or not a number is never the best or the
\* worst row; a group with some valid f1 still gets its output row; a group
\* whose f1 values are all missing gets none, and the call does not fail.
C3_MissingF1Excluded ==
    /\ (sum_pc # "ready" /\ sum_table.readable /\ AllColumns \subseteq sum_table.cols)
          => sum_pc = "returned"
    /\ Summarized =>
          /\ \A k \in 1..Len(OutRows) :
                ValidF1(OutRows[k].best.idx) /\ ValidF1(OutRows[k].worst.idx)
          /\ \A g \in 1..NumGroups :
                (ValidMembers(g) # {}) <=> (\E k \in 1..Len(OutRows) : OutRows[k].group_id = g)

\* C3 witness: one group mixes a missing, a non-numeric and a valid f1 and
\* is summarized; the other group has only missing f1 and is left out.
C3_Witness ==
    /\ Summarized
    /\ Len(InRows) >= 3
    /\ \E i, j, l \in 1..Len(InRows) :
          /\ InRows[i] = [group_id |-> Num(1), f1 |-> Text]
          /\ InRows[j] = [group_id |-> Num(1), f1 |-> Num(1)]
          /\ InRows[l] = [group_id |-> Num(2), f1 |-> NaN]
    /\ ValidMembers(2) = {}
    /\ Len(OutRows) = 1
    /\ OutRows[1].group_id = 1

\* C4: on a table with no rows or without a group_id column the call
\* returns normally and leaves the output CSV as it was.
C4_NothingToSummarize ==
    [][(sum_pc = "ready" /\ sum_table.readable
          /\ (sum_table.rows = <<>> \/ "group_id" \notin sum_table.cols))
        => (sum_pc' = "returned" /\ output_csv' = output_csv
              /\ output_writes' = output_writes)]_vars

\* C4 witness: the call has returned on a table that has rows but no
\* group_id column, with an earlier output file still in place.
C4_Witness ==
    /\ sum_pc = "returned"
    /\ sum_table.rows # <<>>
    /\ "group_id" \notin sum_table.cols
    /\ output_csv = StaleOutput
    /\ output_writes = 0

\* C4 witness of the other case: returned on a table with no rows.
C4_WitnessEmpty ==
    /\ sum_pc = "returned"
    /\ sum_table.readable
    /\ sum_table.rows = <<>>
    /\ AllColumns \subseteq sum_table.cols
    /\ output_csv = StaleOutput

\* C27: every row the Summarizer writes has both a best and a worst side,
\* each taken from a row of the group the output row is for, with a group_id
\* that is not missing and best_f1 >= worst_f1; the groups with a best row
\* are the groups with a worst row.
BestGroups == {OutRows[k].group_id : k \in {j \in 1..Len(OutRows) : OutRows[j].best # NoRow}}
WorstGroups == {OutRows[k].group_id : k \in {j \in 1..Len(OutRows) : OutRows[j].worst # NoRow}}
C27_BothSidesOfOwnGroup ==
    Summarized =>
        /\ BestGroups = WorstGroups
        /\ \A k \in 1..Len(OutRows) :
              LET r == OutRows[k]
              IN /\ r.best # NoRow /\ r.worst # NoRow
                 /\ r.group_id \in 1..NumGroups
                 /\ r.best.row.group_id = Num(r.group_id)
                 /\ r.worst.row.group_id = Num(r.group_id)
                 /\ r.best.row.f1.kind = "num" /\ r.worst.row.f1.kind = "num"
                 /\ r.best.row.f1.v >= r.worst.row.f1.v

\* C27 witness: one group is summarised with its best f1 above its worst,
\* from a table whose other group has only a missing f1 and is on neither
\* side.
C27_Witness ==
    /\ Summarized
    /\ Len(OutRows) = 1
    /\ OutRows[1].best.row.f1.v > OutRows[1].worst.row.f1.v
    /\ \E i \in 1..Len(InRows) :
          /\ ~ValidF1(i)
          /\ InRows[i].group_id.kind = "num"
          /\ InRows[i].group_id # Num(OutRows[1].group_id)

(***************************************************************************)
(* Claims about the Standardizer, checked under SpecStd.                   *)
(***************************************************************************)
KeysOf(candidates) == {NormKey(candidates[i]) : i \in 1..Len(candidates)}
PromptKeys == KeysOf(PromptCandidates)
StepKeySets ==
    [idx \in 0..9 |-> KeysOf(IF idx = 0 THEN Step0Candidates ELSE StepCandidates(idx))]
HeaderKeys == {NormKey(std_src.columns[i]) : i \in 1..Len(std_src.columns)}
PromptMatches == {i \in 1..Len(std_src.columns) : NormKey(std_src.columns[i]) \in PromptKeys}
HasPromptColumn == HeaderKeys \cap PromptKeys # {}
StepDetected(idx) == HeaderKeys \cap StepKeySets[idx] # {}
DetectedSteps == {idx \in 0..9 : StepDetected(idx)}
ValidSource ==
    /\ std_src.exists
    /\ std_src.rows # <<>>
    /\ HasPromptColumn
    /\ DetectedSteps # {}
StdDone == std_pc # "ready"
OutCsv == canonical_csv.rows

\* C5: for a source with at least one row, a prompt column and a step
\* column, the call writes exactly one data row per input row, in the input
\* order: output row i carries the prompt text of input row i.
C5_OneRowPerInputRow ==
    (StdDone /\ ValidSource) =>
        /\ std_pc = "returned"
        /\ canonical_csv.exists
        /\ Len(OutCsv) = Len(std_src.rows)
        /\ \E p \in PromptMatches :
              \A i \in 1..Len(OutCsv) : OutCsv[i][1] = strip(str(std_src.rows[i][p]))

\* C5 witness: a source of two different rows has been standardised.
C5_Witness ==
    /\ std_pc = "returned"
    /\ Len(std_src.rows) = 2
    /\ std_src.rows[1] # std_src.rows[2]
    /\ Len(OutCsv) = 2
    /\ OutCsv[1][1] # OutCsv[2][1]

\* C6: the header is prompt, editing_prompt, step0_path..stepK_path with K
\* the highest detected step index, which is also the value returned; every
\* row has a cell for each index 0..K, empty where no source column exists
\* for the index and a path where the source cell holds one (a cell that is
\* neither missing nor blank).
C6_HeaderAndGaps ==
    std_pc = "returned" =>
        LET D == DetectedSteps
            K == CHOOSE m \in D : \A x \in D : x <= m
        IN /\ std_ret = K
           /\ canonical_csv.fieldnames =
                 <<s_prompt, s_editing_prompt>>
                 \o [k \in 1..(K + 1) |-> <<"s", "t", "e", "p">> \o DigitStr(k - 1) \o <<"_", "p", "a", "t", "h">>]
           /\ \A i \in 1..Len(OutCsv) :
                 /\ Len(OutCsv[i]) = K + 3
                 /\ \A idx \in 0..K :
                       /\ idx \notin D => OutCsv[i][idx + 3] = <<>>
                       /\ (idx \in D /\ \A c \in 1..Len(std_src.columns) :
                                         /\ notna(std_src.rows[i][c])
                                         /\ strip(str(std_src.rows[i][c])) # <<>>)
                             => OutCsv[i][idx + 3] # <<>>

\* C6 witness: a source with edit_1 and step3 columns but neither a step0
\* nor a step2 column has been standardised to four step columns.
C6_Witness ==
    /\ std_pc = "returned"
    /\ std_ret = 3
    /\ DetectedSteps = {1, 3}
    /\ Len(OutCsv) = 2
    /\ OutCsv[1][3] = <<>>
    /\ OutCsv[1][4] # <<>>
    /\ OutCsv[1][5] = <<>>
    /\ OutCsv[1][6] # <<>>

\* C7: the call fails, returning no step count, when the source file does
\* not exist, has no data rows, has no prompt column or has no step column.
C7_FailureModes ==
    (StdDone /\ ~ValidSource) => (std_pc = "raised" /\ std_ret = -1)

\* C7 witness: the call has failed on an existing source that has rows and
\* a prompt column but no step column.
C7_Witness ==
    /\ std_pc = "raised"
    /\ std_src.exists
    /\ std_src.rows # <<>>
    /\ HasPromptColumn
    /\ DetectedSteps = {}

\* C7, the other failure cases reached: missing file, no rows, no prompt.
C7_WitnessMissing == std_pc = "raised" /\ ~std_src.exists
C7_WitnessNoRows ==
    /\ std_pc = "raised"
    /\ std_src.exists /\ std_src.rows = <<>>
    /\ HasPromptColumn /\ DetectedSteps # {}
C7_WitnessNoPrompt ==
    /\ std_pc = "raised"
    /\ std_src.exists /\ std_src.rows # <<>>
    /\ ~HasPromptColumn /\ DetectedSteps # {}

(***************************************************************************)
(* Claims about repeated and failing Standardizer calls.                   *)
(***************************************************************************)
CalledTwice == std_prev # NoPrev

\* C21: a second call with the same source, model directory and output path
\* ends as the first did, returns the same step count and leaves the
\* canonical CSV with exactly the header and rows the first call wrote.
C21_SecondRunIdentical ==
    CalledTwice =>
        /\ std_pc = std_prev.outcome
        /\ std_ret = std_prev.max_step
        /\ canonical_csv = std_prev.file

\* C21 witness: both calls have returned and the file holds one data row
\* under a header of more than one step column.
C21_Witness ==
    /\ CalledTwice
    /\ std_pc = "returned"
    /\ std_prev.outcome = "returned"
    /\ Len(canonical_csv.rows) = 1
    /\ canonical_csv.fieldnames # StaleCanonical.fieldnames

\* C26: a call that fails leaves the file at the output path and its parent
\* directory as they were: neither is created, and a canonical CSV left by
\* an earlier run keeps its header and rows.
C26_FailureLeavesOutputAlone ==
    [][std_pc' = "raised" => canonical_csv' = canonical_csv]_vars

\* C26 witness: the call has failed on a source without a step column and
\* the output path still holds the earlier file.
C26_Witness ==
    /\ std_pc = "raised"
    /\ std_src.exists /\ std_src.rows # <<>>
    /\ canonical_csv = StaleCanonical

\* C26, the other case reached: the call has failed and neither the output
\* file nor its parent directory exists.
C26_WitnessNothingCreated ==
    /\ std_pc = "raised"
    /\ ~canonical_csv.exists /\ ~canonical_csv.dir

\* C22: every row the call writes has a prompt field that is not the empty
\* string, whatever the source prompt cell holds.
C22_PromptNonEmpty ==
    std_pc = "returned" => \A i \in 1..Len(OutCsv) : OutCsv[i][1] # <<>>

(***************************************************************************)
(* Claims about the Pipeline Driver, checked under Spec.                   *)
(***************************************************************************)
Terminated == pc \in {"done", "crashed"}
Selected == Range(model_dirs)
Standardised == {model_infos[i].name : i \in 1..Len(model_infos)}
LaunchedFor(kind, m) == \E i \in 1..Len(launched) : launched[i] = [kind |-> kind, model |-> m]
LaunchCount(kind, m) == Cardinality({i \in 1..Len(launched) : launched[i] = [kind |-> kind, model |-> m]})
\* the stage of a scorer has dealt with model m: it was launched for m, or
\* skipped for m because an earlier output is in place
Handled(kind, m) ==
    \/ LaunchedFor(kind, m)
    \/ kind = "general" /\ fs.outputs[m].generals # {}
    \/ kind = "cultural" /\ fs.outputs[m].csummary # Unreadable
ScorerFailed == failure.kind \in {"general", "cultural"}

\* C8: when standardisation fails for one selected model, only that model
\* is skipped: every other selected model is still standardised and then
\* handled by each scoring stage that is not switched off.
C8_OnlyFailedModelSkipped ==
    (Terminated /\ \E b \in Selected : fs.sources[b] \in BadSources) =>
        \A m \in Selected :
            fs.sources[m] \notin BadSources =>
                /\ fs.canonical[m]
                /\ ~args.skip_general => Handled("general", m)
                /\ ~args.skip_cultural => Handled("cultural", m)

\* C9: once a general or cultural scorer has exited non-zero the run is
\* over with an unhandled CalledProcessError: the failed launch is the last
\* launch of the run and was made once, nothing is being waited for, a
\* failed general scorer is followed by no cultural work, and a failed
\* cultural scorer by no Summarizer call for its model.
C9_ScorerFailureEndsRun ==
    ScorerFailed =>
        /\ pc = "crashed"
        /\ error = "CalledProcessError"
        /\ proc = None
        /\ launched[Len(launched)] = [kind |-> failure.kind, model |-> failure.model]
        /\ LaunchCount(failure.kind, failure.model) = 1
        /\ failure.kind = "general" =>
              /\ summarized = <<>>
              /\ \A i \in 1..Len(launched) : launched[i].kind # "cultural"
        /\ \A i \in 1..Len(summarized) : summarized[i] < failure.model

\* C9 witness: the general scorer failed for the first of two standardised
\* models while cultural scoring was still to come.
C9_Witness ==
    /\ ScorerFailed
    /\ failure.kind = "general"
    /\ failure.model = 1
    /\ Len(model_infos) = 2
    /\ ~args.skip_cultural
    /\ pc = "crashed"

\* C10 as claimed: after a scorer has exited non-zero for one model, the
\* models later in the processing order are still scored.
C10_LaterModelsStillScored ==
    (Terminated /\ ScorerFailed) =>
        \A m \in Standardised : m > failure.model => Handled(failure.kind, m)

\* C10 as amended: a non-zero exit of a scorer invoked for one model aborts
\* the whole run, so that scorer is launched for no model later in the
\* processing order.
C10_LaterModelsNotScored ==
    ScorerFailed =>
        \A i \in 1..Len(launched) :
            ~(launched[i].kind = failure.kind /\ launched[i].model > failure.model)

\* C10 witness: the cultural scorer failed for model 1 while model 2, which
\* has no cultural output, was still to be scored.
C10_Witness ==
    /\ ScorerFailed
    /\ failure.kind = "cultural"
    /\ failure.model = 1
    /\ 2 \in Standardised
    /\ fs.outputs[2].csummary = Unreadable
    /\ ~LaunchedFor("cultural", 2)
    /\ Terminated

\* C11: whenever cultural scoring is not skipped by flag, the Summarizer is
\* called for every model of the run, both for a model whose cultural scorer
\* was invoked in this run and for a model whose scorer invocation was
\* skipped because its cached output exists.
C11_SummarizerAlwaysRuns ==
    (pc = "done" /\ ~args.skip_cultural) =>
        \A m \in Standardised : m \in Range(summarized)

\* the model the general loop is about to handle
AtGeneral(m) == pc = "general" /\ pos <= Len(model_infos) /\ model_infos[pos].name = m

\* C12 as claimed: a model that has a prior general metrics output, in a run
\* with --reuse-latest-general and without --force, is passed over by the
\* general loop without a scorer launch.
C12_ReuseNeverInvokes ==
    [][\A m \in Models :
          (AtGeneral(m) /\ args.reuse_latest_general /\ ~args.force
              /\ fs.outputs[m].generals # {})
          => launched' = launched]_vars

\* C12 as amended: the scorer is not launched when, in addition, the latest
\* prior output has its companion _summary.csv; the step then leaves every
\* file as it is and moves on to the next model.
C12_ReuseWithSummarySkips ==
    [][\A m \in Models :
          (AtGeneral(m) /\ args.reuse_latest_general /\ ~args.force
              /\ fs.outputs[m].generals # {}
              /\ Latest(fs.outputs[m].generals) \in fs.outputs[m].gsummaries)
          => (launched' = launched /\ proc' = None /\ fs' = fs /\ pos' = pos + 1)]_vars

\* C12 witness: the general loop has passed over model 1, whose earlier
\* general output and summary are in place, without a launch, and is at
\* model 2.
C12_Witness ==
    /\ AtGeneral(2)
    /\ model_infos[1].name = 1
    /\ args.reuse_latest_general /\ ~args.force
    /\ fs.outputs[1].generals = {Older}
    /\ fs.outputs[1].gsummaries = {Older}
    /\ ~LaunchedFor("general", 1)

LaunchedKind(kind) == \E i \in 1..Len(launched) : launched[i].kind = kind
PastStandardise == pc \in {"general", "general_wait", "cultural", "cultural_wait", "summarize", "done"}
PastGeneral == pc \in {"cultural", "cultural_wait", "summarize", "done"}
\* the cultural loop passes over m: lines 390-392
CulturalCached(m) == fs.outputs[m].csummary # Unreadable /\ ~args.force

\* C14: with --skip-general no general scorer is ever launched; with
\* --skip-cultural no index build, no cultural scorer and no Summarizer call
\* ever happens; whatever the two flags are, every selected model has been
\* standardised once the standardisation loop is over, and a stage that is
\* not skipped deals with every one of them (by a launch or by finding its
\* cached output) whether or not the other stage is skipped.
C14_StagesIndependentlySkippable ==
    /\ args.skip_general => ~LaunchedKind("general")
    /\ args.skip_cultural =>
          ~LaunchedKind("index") /\ ~LaunchedKind("cultural") /\ summarized = <<>>
    /\ PastStandardise =>
          /\ Standardised = Selected
          /\ \A m \in Selected : fs.canonical[m]
    /\ (PastGeneral /\ ~args.skip_general) =>
          \A m \in Selected : LaunchedFor("general", m) \/ GeneralCached(m)
    /\ (pc = "done" /\ ~args.skip_cultural) =>
          \A m \in Selected : LaunchedFor("cultural", m) \/ CulturalCached(m)

\* C14 witness: a run with --skip-general only is over: both models were
\* standardised, the cultural scorer was launched for both and the general
\* scorer for none.
C14_Witness ==
    /\ pc = "done"
    /\ args.skip_general /\ ~args.skip_cultural
    /\ Selected = Models
    /\ \A m \in Models : fs.canonical[m] /\ LaunchedFor("cultural", m)
    /\ ~LaunchedKind("general")

\* C14, the other cases reached: --skip-cultural only, and both flags.
C14_WitnessSkipCultural ==
    /\ pc = "done"
    /\ ~args.skip_general /\ args.skip_cultural
    /\ \A m \in Models : fs.canonical[m] /\ LaunchedFor("general", m)
    /\ fs.faiss = FALSE
C14_WitnessSkipBoth ==
    /\ pc = "done"
    /\ args.skip_general /\ args.skip_cultural
    /\ \A m \in Models : fs.canonical[m]
    /\ launched = <<>>

Ascending(seq) == \A i, j \in 1..Len(seq) : i < j => seq[i] < seq[j]
\* the models a subprocess of this kind was launched for, in launch order
LaunchOrder(kind) ==
    LET sel == SelectSeq(launched, LAMBDA l : l.kind = kind)
    IN [i \in 1..Len(sel) |-> sel[i].model]
Waiting == pc \in {"index_wait", "general_wait", "cultural_wait"}

\* C15: at every stage the models are handled in ascending order of their
\* directory name (names 1..NumModels, one digit each, so that the order of
\* the names is the order of the numbers); a subprocess is running exactly
\* while main() is blocked in run_subprocess, and a subprocess is launched
\* only when none is running.
C15_StrictlySequential ==
    /\ [](/\ Ascending(model_dirs)
          /\ Ascending([i \in 1..Len(model_infos) |-> model_infos[i].name])
          /\ Ascending(LaunchOrder("general"))
          /\ Ascending(LaunchOrder("cultural"))
          /\ Ascending(summarized)
          /\ (proc # None) <=> Waiting)
    /\ [][launched' # launched =>
            /\ proc = None /\ proc' # None
            /\ Len(launched') = Len(launched) + 1
            /\ SubSeq(launched', 1, Len(launched)) = launched]_vars

\* C15 witness: the index builder and then both scorers were launched for
\* models 1 and 2 in turn, and the last of them is running.
C15_Witness ==
    /\ launched = <<[kind |-> "index", model |-> 0],
                    [kind |-> "general", model |-> 1], [kind |-> "general", model |-> 2],
                    [kind |-> "cultural", model |-> 1], [kind |-> "cultural", model |-> 2]>>
    /\ proc = Proc("cultural", 2, Now)
    /\ summarized = <<1>>
    /\ pc = "cultural_wait"

IndexLaunches == {i \in 1..Len(launched) : launched[i].kind = "index"}
\* at most one index build, and it comes before every cultural scorer launch
IndexOnceAndFirst ==
    /\ Cardinality(IndexLaunches) <= 1
    /\ \A i \in 1..Len(launched) :
          launched[i].kind = "cultural" => \A j \in IndexLaunches : j < i

\* C16 as claimed: the index builder is invoked at most once per run, before
\* every cultural scorer invocation, and exactly when cultural scoring is not
\* skipped and (--rebuild-index is set or faiss.index does not exist).
C16_IndexBuiltExactlyWhenWanted ==
    /\ []IndexOnceAndFirst
    /\ [][pc = "start" =>
            (LaunchedKind("index")' <=>
                (~args.skip_cultural /\ (args.rebuild_index \/ ~fs.faiss)))]_vars

\* C16 as amended: the same, with the invocation also requiring that the
\* dataset root exists.
C16_IndexBuiltWhenRootExists ==
    /\ []IndexOnceAndFirst
    /\ [][pc = "start" =>
            (LaunchedKind("index")' <=>
                (fs.root_exists /\ ~args.skip_cultural
                    /\ (args.rebuild_index \/ ~fs.faiss)))]_vars
    /\ [][pc # "start" => (LaunchedKind("index")' <=> LaunchedKind("index"))]_vars

\* C16 witness: with --rebuild-index the index builder ran first, although
\* faiss.index was there or has been built, and the cultural scorer has
\* since been launched for both models.
C16_Witness ==
    /\ args.rebuild_index
    /\ fs.faiss
    /\ launched # <<>>
    /\ launched[1].kind = "index"
    /\ LaunchedFor("cultural", 1) /\ LaunchedFor("cultural", 2)

\* C16, the other case reached: faiss.index exists and no rebuild is asked
\* for, so the cultural scorer is launched without any index build.
C16_WitnessNoBuild ==
    /\ ~args.rebuild_index /\ ~args.skip_cultural
    /\ fs.faiss
    /\ ~LaunchedKind("index")
    /\ LaunchedFor("cultural", 1)

\* the dataset root is missing, or --models names a model without directory
ConfigurationError ==
    \/ ~fs.root_exists
    \/ \E name \in args.models : name \notin Models

\* C17: in a run whose dataset root does not exist or whose --models names
\* a model that has no directory, main() never enters the standardisation
\* loop: no canonical CSV is written, no scorer is launched and no
\* Summarizer call is made for any model, and the run ends with an error.
C17_ConfigurationErrorAborts ==
    ConfigurationError =>
        /\ pc \in {"start", "index_wait", "discover", "crashed"}
        /\ \A m \in Models : ~fs.canonical[m]
        /\ model_infos = <<>>
        /\ ~LaunchedKind("general") /\ ~LaunchedKind("cultural")
        /\ summarized = <<>>
        /\ pc = "crashed" =>
              error \in {"FileNotFoundError", "ValueError", "CalledProcessError"}

\* C17 witness: --models named model 2 and a model without directory; the
\* run has ended with the ValueError of line 319, after the index build,
\* with nothing written for model 2 whose source CSV is valid.
C17_Witness ==
    /\ fs.root_exists
    /\ args.models = {NumModels, Ghost}
    /\ fs.sources[NumModels] = GoodSource
    /\ pc = "crashed" /\ error = "ValueError"
    /\ LaunchedKind("index")
    /\ ~fs.canonical[NumModels]

\* C17, the other case reached: the dataset root is missing.
C17_WitnessNoRoot ==
    /\ ~fs.root_exists
    /\ pc = "crashed" /\ error = "FileNotFoundError"
    /\ launched = <<>>

(***************************************************************************)
(* Claims about the Column Resolver, checked under SpecCol.                *)
(***************************************************************************)
\* header i and candidate c are equal after lower-casing and trimming
SameKey(i, c) == NormKey(fc_columns[i]) = NormKey(fc_candidates[c])
MatchingHeaders == {i \in 1..Len(fc_columns) : \E c \in 1..Len(fc_candidates) : SameKey(i, c)}
MatchedCandidates == {c \in 1..Len(fc_candidates) : \E i \in 1..Len(fc_columns) : SameKey(i, c)}
MinOf(S) == CHOOSE x \in S : \A y \in S : x <= y
MaxOf(S) == CHOOSE x \in S : \A y \in S : x >= y

\* C18 as claimed: find_column returns the earliest header, in header
\* order, that equals any candidate after lower-casing and trimming, and the
\* not-found value when no header does.
C18_FirstMatchingHeader ==
    fc_pc = "returned" =>
        IF MatchingHeaders = {} THEN fc_ret = NotFound
        ELSE fc_ret = Found(fc_columns[MinOf(MatchingHeaders)])

\* C18 as amended: find_column returns the header that equals the first
\* candidate, in candidate order, that any header equals after lower-casing
\* and trimming; of several headers equal to that candidate it returns the
\* last in header order; it returns not-found when no header matches.
C18_FirstMatchingCandidate ==
    fc_pc = "returned" =>
        IF MatchedCandidates = {} THEN fc_ret = NotFound
        ELSE LET c == MinOf(MatchedCandidates)
             IN fc_ret = Found(fc_columns[MaxOf({i \in 1..Len(fc_columns) : SameKey(i, c)})])

\* C18 witness: the header Text comes before the header Prompt, both match
\* a prompt candidate, and the header of the earlier candidate is returned.
C18_Witness ==
    /\ fc_pc = "returned"
    /\ fc_candidates = PromptCandidates
    /\ fc_columns = <<h_img, h_Text, h_Prompt>>
    /\ fc_ret = Found(h_Prompt)

\* C18, the other case reached: two headers with the key of one candidate.
C18_WitnessSameKey ==
    /\ fc_pc = "returned"
    /\ fc_candidates = PromptCandidates
    /\ fc_columns = <<h_Prompt, h_prompt_pad>>
    /\ fc_ret = Found(h_prompt_pad)

\* C19: find_column finds a header exactly when some header and some
\* candidate are equal after lower-casing and trimming, so a header that
\* only contains a candidate or is contained in one is not found; the value
\* returned is one of the given headers, spelled as given, and it equals a
\* candidate after lower-casing and trimming.
C19_ExactMatchOnly ==
    fc_pc = "returned" =>
        /\ fc_ret.found <=> MatchingHeaders # {}
        /\ fc_ret.found =>
              \E i \in MatchingHeaders : fc_ret.col = fc_columns[i]
        /\ ~fc_ret.found => fc_ret = NotFound

\* C19 witness: the headers Prompts, which contains the candidate prompt,
\* and Tex, which is contained in the candidate text, are not found.
C19_Witness ==
    /\ fc_pc = "returned"
    /\ fc_candidates = PromptCandidates
    /\ fc_columns = <<h_Prompts, h_Tex>>
    /\ Contains(NormKey(h_Prompts), s_prompt)
    /\ Contains(s_text, NormKey(h_Tex))
    /\ fc_ret = NotFound

\* C19, the other case reached: the header " prompt " is returned as spelled
\* for the candidate " PROMPT ".
C19_WitnessSpelling ==
    /\ fc_pc = "returned"
    /\ fc_candidates = <<s_text, c_PROMPT_pad>>
    /\ fc_columns = <<h_Prompts, h_prompt_pad>>
    /\ fc_ret = Found(h_prompt_pad)

(***************************************************************************)
(* Claims about the Path Resolver, checked under SpecPath.                 *)
(***************************************************************************)
\* the path the trimmed value denotes
ValuePath == Path(strip(rp_value))
\* the canonical form of a path: absolute, from the working directory when
\* the path is relative, without "." and with every ".." resolved
Canonical(path) ==
    LET abs == IF path.root # <<>> THEN path
               ELSE [root |-> Cwd.root, parts |-> Cwd.parts \o path.parts]
    IN [root |-> abs.root, parts |-> Collapse(abs.parts, <<>>)]
IsCanonical(path) ==
    /\ path.root # <<>>
    /\ \A i \in 1..Len(path.parts) : path.parts[i] \notin {<<>>, <<".">>, <<".", ".">>}

\* C20: for a value that is not blank, resolve_path returns the canonical
\* form of the value when the value is absolute, and the canonical absolute
\* form of base_dir joined with the value when it is relative.
C20_ResolvePathCanonical ==
    (rp_pc = "returned" /\ strip(rp_value) # <<>>) =>
        /\ ValuePath.root # <<>> => rp_ret = PathStr(Canonical(ValuePath))
        /\ ValuePath.root = <<>> =>
              rp_ret = PathStr(Canonical([root |-> rp_base_dir.root,
                                          parts |-> rp_base_dir.parts \o ValuePath.parts]))
        /\ IsCanonical(Path(rp_ret))

\* C20, the part that holds: the claim for relative values only.
C20_RelativeCanonical ==
    (rp_pc = "returned" /\ strip(rp_value) # <<>> /\ ValuePath.root = <<>>) =>
        /\ rp_ret = PathStr(Canonical([root |-> rp_base_dir.root,
                                       parts |-> rp_base_dir.parts \o ValuePath.parts]))
        /\ IsCanonical(Path(rp_ret))

(***************************************************************************)
(* Claims about the files the driver hands on, checked under Spec.         *)
(***************************************************************************)
\* C23 as stated: for every model the Summarizer was called for, the
\* best/worst CSV holds the rows summarised from the detail CSV the cultural
\* scorer wrote for the model in this run.
C23_SummarizerReadsDetail ==
    \A m \in Range(summarized) :
        LET r == summarize_best_worst(fs.outputs[m].cdetail)
        IN r.written => fs.outputs[m].best_worst = File(r.out)

\* C23 amended: for every model the Summarizer was called for, it was
\* given the summary CSV the cultural scorer wrote for the model in this
\* run: the run has stopped if that file cannot be summarised, and otherwise
\* the best/worst CSV holds the rows summarised from it.
C23_SummarizerReadsSummary ==
    \A m \in Range(summarized) :
        LET r == summarize_best_worst(fs.outputs[m].csummary)
        IN /\ LaunchedFor("cultural", m)
           /\ r.outcome = "raised" => pc = "crashed"
           /\ r.written => fs.outputs[m].best_worst = File(r.out)

\* C23 witness: the scorer of a model has left a summary and a detail CSV
\* that summarise to different rows, and the Summarizer has written the
\* best/worst CSV of the model.
C23_Witness ==
    \E m \in Range(summarized) :
        /\ fs.outputs[m].csummary = GoodTable
        /\ fs.outputs[m].cdetail = DetailTable
        /\ fs.outputs[m].best_worst # Absent
        /\ summarize_best_worst(GoodTable).out # summarize_best_worst(DetailTable).out

\* C24: a scorer is launched only when the canonical CSV of every selected
\* model has been written; a cultural scorer is launched only after every
\* general scorer launch of the run and while no general scorer is running;
\* and in a run with a selected model whose source cannot be standardised no
\* scorer is launched and the Summarizer is not called.
ScorerLaunched == LaunchedKind("general") \/ LaunchedKind("cultural")
C24_GlobalPhases ==
    /\ ScorerLaunched => \A m \in Selected : fs.canonical[m] /\ m \in Standardised
    /\ \A i, j \in 1..Len(launched) :
          (launched[i].kind = "cultural" /\ launched[j].kind = "general") => j < i
    /\ LaunchedKind("cultural") => proc.kind # "general"
    /\ (\E m \in Selected : fs.sources[m] \in BadSources)
          => (~ScorerLaunched /\ summarized = <<>>)

\* C24 witness: both scorers have been launched for two selected models,
\* the general one for the last model before the cultural one for the first.
C24_Witness ==
    /\ Selected = Models
    /\ LaunchOrder("general") = <<1, NumModels>>
    /\ LaunchOrder("cultural") = <<1, NumModels>>
    /\ pc = "done"

\* C24, the failure case reached: the first model was standardised, the
\* second could not be, and the run has ended with no scorer launched.
C24_WitnessFailure ==
    /\ pc = "crashed"
    /\ Selected = Models
    /\ fs.canonical[1]
    /\ fs.sources[NumModels] \in BadSources
    /\ ~args.skip_general /\ ~args.skip_cultural
    /\ ~ScorerLaunched

\* C25: in a run with --force that has ended without a failure, each scorer
\* whose stage is not skipped has been launched exactly once for every
\* selected model, whatever output files the models had and whether or not
\* --reuse-latest-general is given.
C25_ForceRunsEveryScorerOnce ==
    (args.force /\ pc = "done") =>
        \A m \in Selected :
            /\ ~args.skip_general => LaunchCount("general", m) = 1
            /\ ~args.skip_cultural => LaunchCount("cultural", m) = 1

\* C25 witness: a run with --force and --reuse-latest-general has ended
\* after launching both scorers for two models, the first of which had a
\* general output with its companion summary and the second every output
\* under the run's own timestamp.
C25_Witness ==
    /\ args.force /\ args.reuse_latest_general
    /\ pc = "done"
    /\ Selected = Models
    /\ Older \in fs.outputs[1].gsummaries
    /\ Now \in fs.outputs[NumModels].gsummaries
    /\ \A m \in Models : LaunchCount("general", m) = 1 /\ LaunchCount("cultural", m) = 1

\* C28: in a run with --reuse-latest-general and without --force, for a
\* model with earlier general outputs: when the latest of them has no
\* companion summary, the general loop launches the scorer with that file
\* as its output path, and the scorer's exit adds no file name to the
\* model's general outputs; when the latest has its companion, no step of
\* the general stage changes any output file of the model.
ReuseAsked(m) ==
    args.reuse_latest_general /\ ~args.force /\ fs.outputs[m].generals # {}
LatestHasSummary(m) ==
    \E t \in fs.outputs[m].gsummaries :
        t \in fs.outputs[m].generals /\ \A u \in fs.outputs[m].generals : u <= t
C28_ReuseOverwritesLatest ==
    [][\A m \in Models :
          /\ (AtGeneral(m) /\ ReuseAsked(m) /\ ~LatestHasSummary(m))
                => /\ proc'.kind = "general" /\ proc'.model = m
                   /\ proc'.out \in fs.outputs[m].generals
                   /\ \A u \in fs.outputs[m].generals : u <= proc'.out
                   /\ launched' = Append(launched, [kind |-> "general", model |-> m])
                   /\ fs' = fs
          /\ (pc = "general_wait" /\ proc.model = m /\ ReuseAsked(m))
                => fs'.outputs[m].generals = fs.outputs[m].generals
          /\ (pc \in {"general", "general_wait"} /\ ReuseAsked(m) /\ LatestHasSummary(m))
                => fs'.outputs[m] = fs.outputs[m]]_vars

\* C28 witness: model 1 had one earlier general output without a summary;
\* the scorer was launched for it and has exited, the loop is at model 2,
\* and the model still has that one general output and none under the run's
\* own timestamp.
C28_Witness ==
    /\ AtGeneral(2)
    /\ model_infos[1].name = 1
    /\ args.reuse_latest_general /\ ~args.force
    /\ LaunchedFor("general", 1)
    /\ fs.outputs[1].generals = {Older}
    /\ timestamp = Now

(***************************************************************************)
(* Claims about the cultural scorer command, checked under SpecCmd.        *)
(***************************************************************************)
Options == Range(cmd)
Follows(opt, val) == \E i \in 1..(Len(cmd) - 1) : cmd[i] = opt /\ cmd[i + 1] = val
LegacyOptions ==
    {"--image-columns", "--require-question-minimum", "--enable-rating",
     "--enable-vlm-selection"}

DataAvailable == \A i \in 1..Len(ana_args.models) : ana_args.models[i] \in data_files
SinglePlan(type) ==
    [i \in 1..Len(ana_args.models) |->
        [kind |-> "single", type |-> type, model |-> ana_args.models[i]]]
CorePlan ==
    <<[kind |-> "core", type |-> "None", model |-> 0],
      [kind |-> "summary", type |-> "None", model |-> 0]>>
MultiPlan ==
    <<[kind |-> "multi", type |-> "cultural", model |-> 0],
      [kind |-> "multi", type |-> "general", model |-> 0]>>
\* the analyses the command line asks for, in the order of main()
Planned ==
    CASE ana_args.analysis_type = "all" ->
             SinglePlan("cultural") \o SinglePlan("general") \o CorePlan \o MultiPlan
      [] ana_args.analysis_type = "single" ->
             IF ana_args.single_type = "None" THEN <<>> ELSE SinglePlan(ana_args.single_type)
      [] ana_args.analysis_type = "core" -> CorePlan
      [] OTHER -> MultiPlan
IsPrefix(p, q) == Len(p) <= Len(q) /\ \A i \in 1..Len(p) : p[i] = q[i]

\* C30: when the data of every model is available, main() never ends early:
\* the analyses started are always the first of the planned ones, in the
\* plan's order (single-model cultural for each model, single-model general
\* for each model, core, summary heatmap, multi-model cultural, multi-model
\* general), and all of them when main() returns; total_count is the number
\* started, 2*|models| + 4 at the return for analysis type all, and
\* 0 <= success_count <= total_count.  When the data of some model is
\* missing, no analysis is started.
C30_FailuresDoNotStopAnalyses ==
    /\ ana_pc # "crashed"
    /\ IsPrefix(attempted, Planned)
    /\ total_count = Len(attempted)
    /\ 0 <= success_count /\ success_count <= total_count
    /\ (ana_pc = "returned" /\ DataAvailable) =>
          /\ attempted = Planned
          /\ ana_args.analysis_type = "all" => total_count = 2 * Len(ana_args.models) + 4
    /\ ~DataAvailable => attempted = <<>>

\* C30 witness: main() has returned for analysis type all and two different
\* models after all eight analyses, of which some failed and some succeeded.
C30_Witness ==
    /\ ana_pc = "returned"
    /\ ana_args.analysis_type = "all"
    /\ Len(ana_args.models) = 2
    /\ ana_args.models[1] # ana_args.models[2]
    /\ total_count = 8
    /\ success_count = 5

\* C30, the other case reached: main() has returned without an analysis
\* because the data of a model is missing.
C30_WitnessNoData ==
    /\ ana_pc = "returned"
    /\ ~DataAvailable
    /\ ana_args.analysis_type = "all"
    /\ total_count = 0

(***************************************************************************)
(* Claims about two pipeline runs, checked under SpecRuns.                 *)
(***************************************************************************)
InLaterRun == timestamp = Later
\* the launches of the later run
LaterLaunches ==
    {launched[i] : i \in {j \in 1..Len(launched) :
                             \E k \in 1..(j - 1) : launched[k] = NewRun}}
\* the first run's scorer of this kind left its output for model m
WrittenEarlier(kind, m) ==
    \/ kind = "general" /\ Now \in fs.outputs[m].generals
    \/ kind = "cultural" /\ fs.outputs[m].cearlier

\* C13: metric outputs a scorer wrote for a model in one run are reused by
\* a later run without --force: the later run does not launch that scorer
\* for that model.
C13_LaterRunReuses ==
    (InLaterRun /\ ~args.force) =>
        \A m \in Models : \A kind \in {"general", "cultural"} :
            WrittenEarlier(kind, m) => [kind |-> kind, model |-> m] \notin LaterLaunches

====
